---- MODULE Spec2Model ----
(***************************************************************************)
(* Verification model of the patent_hub form scripts (Frappe client side). *)
(*                                                                         *)
(* SpecGate : the Task Status Gate of the four doctypes that own           *)
(*            call_/rerun_/cancel_ buttons, applied to documents drawn     *)
(*            from bounded sets.                                           *)
(* Spec     : one open form with its run handlers, the freeze overlay,     *)
(*            in-flight saves, remote calls and reloads, the backend task  *)
(*            and the realtime listener.                                   *)
(***************************************************************************)
EXTENDS Integers, Sequences, FiniteSets, TLC

\* ------------------------------------------------------------------------
\* Bounds
\* ------------------------------------------------------------------------
MaxText == 2
MaxRows == 2
MaxCount == 2
MaxVaried == 2
MaxSuccess == 1
MaxInv == 2
MaxReloads == 2

\* ------------------------------------------------------------------------
\* JavaScript values used by the gates
\* ------------------------------------------------------------------------
\* characters of a text field: one whitespace and one printing character
Chars == {" ", "a"}

SeqsUpTo(S, n) == UNION {[1..k -> S] : k \in 0..n}

Texts == SeqsUpTo(Chars, MaxText)

\* String.prototype.trim: drop leading and trailing whitespace
RECURSIVE TrimLeft(_)
TrimLeft(s) == IF s = <<>> THEN s
               ELSE IF Head(s) = " " THEN TrimLeft(Tail(s)) ELSE s

RECURSIVE TrimRight(_)
TrimRight(s) == IF s = <<>> THEN s
                ELSE IF s[Len(s)] = " " THEN TrimRight(SubSeq(s, 1, Len(s) - 1)) ELSE s

Trim(s) == TrimRight(TrimLeft(s))

\* !!x for a string: the empty string is falsy
Truthy(s) == s # <<>>

\* !!frm.doc[field]?.trim?.()
HasText(s) == Truthy(Trim(s))

\* a child-table row; file is "" when nothing is attached
Files == {"", "f"}
Rows == [file : Files]
Tables == SeqsUpTo(Rows, MaxRows)

\* ------------------------------------------------------------------------
\* Task Status Gate
\* ------------------------------------------------------------------------
GateKinds == {"Review Reply", "Md2docx", "Patentability", "Patent Workflow"}

Steps == {"title2scene", "info2tech", "scene2tech", "tech2application",
          "align2tex2docx", "review2revise"}

field_map == [title2scene |-> "patent_title",
              info2tech |-> "table_upload_info2tech",
              scene2tech |-> "scene",
              tech2application |-> "tech",
              align2tex2docx |-> "application",
              review2revise |-> "table_upload_review2revise"]

\* field.startsWith("table_")
is_table(step) == step \in {"info2tech", "review2revise"}

Btn(call, rerun, cancel) == [call |-> call, rerun |-> rerun, cancel |-> cancel]

\* rows.some(row => !!row?.file)
has_uploaded_file(rows) == \E i \in 1..Len(rows) : rows[i].file # ""

has_value_reviewreply(doc) ==
    /\ HasText(doc.patent_title)
    /\ has_uploaded_file(doc.table_upload_review)
    /\ has_uploaded_file(doc.table_upload_pdoc)

update_reviewreply_buttons(doc) ==
    LET is_running == doc.is_running_reviewreply = 1
        is_done == doc.is_done_reviewreply = 1
        success_count == doc.success_count_reviewreply
        has_value == has_value_reviewreply(doc)
        has_ever_succeeded == success_count > 0
    IN  IF has_ever_succeeded
        THEN Btn(FALSE, has_value /\ ~is_running, is_running)
        ELSE Btn(has_value /\ ~is_running /\ ~is_done, FALSE, is_running)

has_value_md2docx(doc) == HasText(doc.md)

update_md2docx_buttons(doc) ==
    LET is_running == doc.is_running_md2docx = 1
        is_done == doc.is_done_md2docx = 1
        success_count == doc.success_count_md2docx
        has_md == has_value_md2docx(doc)
        has_ever_succeeded == success_count > 0
    IN  IF has_ever_succeeded
        THEN Btn(FALSE, has_md /\ ~is_running, is_running)
        ELSE Btn(has_md /\ ~is_running /\ ~is_done, FALSE, is_running)

has_value_patentability(doc) ==
    /\ HasText(doc.patent_title)
    /\ has_uploaded_file(doc.table_upload_patentability)

\* variant: the first-run branch forgets the is_done test
update_patentability_buttons_IgnoresDone(doc) ==
    LET is_running == doc.is_running_patentability = 1
        success_count == doc.success_count_patentability
        has_value == has_value_patentability(doc)
    IN  IF success_count > 0
        THEN Btn(FALSE, has_value /\ ~is_running, is_running)
        ELSE Btn(has_value /\ ~is_running, FALSE, is_running)

update_patentability_buttons(doc) ==
    LET is_running == doc.is_running_patentability = 1
        is_done == doc.is_done_patentability = 1
        success_count == doc.success_count_patentability
        has_value == has_value_patentability(doc)
        has_ever_succeeded == success_count > 0
    IN  IF has_ever_succeeded
        THEN Btn(FALSE, has_value /\ ~is_running, is_running)
        ELSE Btn(has_value /\ ~is_running /\ ~is_done, FALSE, is_running)

\* has_value of one step of Patent Workflow
has_value_step(doc, step) ==
    IF is_table(step)
    THEN Len(doc[field_map[step]]) > 0
    ELSE HasText(doc[field_map[step]])

\* variant: rerun is offered whether or not the step is done
update_step_buttons_RerunIgnoresDone(doc) ==
    [step \in Steps |->
        LET is_running == doc.is_running[step] = 1
            is_done == doc.is_done[step] = 1
            has_value == has_value_step(doc, step)
        IN  Btn(has_value /\ ~is_running /\ ~is_done,
                has_value /\ ~is_running,
                is_running)]

\* variant: a step counts as running while any step is running
update_step_buttons_AnyRunning(doc) ==
    [step \in Steps |->
        LET is_running == \E other \in Steps : doc.is_running[other] = 1
            is_done == doc.is_done[step] = 1
            has_value == has_value_step(doc, step)
        IN  Btn(has_value /\ ~is_running /\ ~is_done,
                has_value /\ ~is_running /\ is_done,
                is_running)]

update_step_buttons(doc) ==
    [step \in Steps |->
        LET is_running == doc.is_running[step] = 1
            is_done == doc.is_done[step] = 1
            has_value == has_value_step(doc, step)
        IN  Btn(has_value /\ ~is_running /\ ~is_done,
                has_value /\ ~is_running /\ is_done,
                is_running)]

\* ------------------------------------------------------------------------
\* Run handlers
\*
\* A handler is an async function: it runs from one await to the next.
\* Each operator below gives, for the await the handler has just left (pc)
\* and the outcome of the awaited operation, the alert it shows and the
\* await it reaches next ("done" when it returns).  pc = "start" is the
\* click.  Outcomes: "ok", "fail" (frm.save() rejected, or the remote method
\* returned {success: false, error}), "throw" (frappe.call rejected).
\* Alerts: "none", or the indicator colour; "red:E" is a red alert that
\* carries the error text, "red:fixed" a red alert with a fixed text.
\* ------------------------------------------------------------------------
Step(next, alert) == [next |-> next, alert |-> alert]

\* variant: the failure of frm.save() is swallowed and the call is issued
run_step_backend_IgnoresSaveFailure(pc, outcome, is_dirty) ==
    CASE pc = "start" -> IF is_dirty THEN Step("save", "none") ELSE Step("call", "none")
      [] pc = "save" -> Step("call", "none")
      [] pc = "call" -> IF outcome = "throw" THEN Step("done", "red:E")
                        ELSE Step("reload", "none")
      [] pc = "reload" -> Step("done", "none")

run_step_backend(pc, outcome, is_dirty) ==
    CASE pc = "start" -> IF is_dirty THEN Step("save", "none") ELSE Step("call", "none")
      [] pc = "save" -> IF outcome = "ok" THEN Step("call", "none")
                        ELSE Step("done", "red:E")
      [] pc = "call" -> IF outcome = "throw" THEN Step("done", "red:E")
                        ELSE Step("reload", "none")
      [] pc = "reload" -> Step("done", "none")

\* variant: the catch block reloads the document before it returns
run_reviewreply_backend_ReloadsInCatch(pc, outcome, is_dirty) ==
    CASE pc = "start" -> IF is_dirty THEN Step("save", "none") ELSE Step("call", "none")
      [] pc = "save" -> IF outcome = "ok" THEN Step("call", "none")
                        ELSE Step("done", "red:E")
      [] pc = "call" -> IF outcome = "throw" THEN Step("reload", "red:E")
                        ELSE Step("reload", "none")
      [] pc = "reload" -> Step("done", "none")

run_reviewreply_backend(pc, outcome, is_dirty) ==
    CASE pc = "start" -> IF is_dirty THEN Step("save", "none") ELSE Step("call", "none")
      [] pc = "save" -> IF outcome = "ok" THEN Step("call", "none")
                        ELSE Step("done", "red:E")
      [] pc = "call" -> IF outcome = "throw" THEN Step("done", "red:E")
                        ELSE Step("reload", "none")
      [] pc = "reload" -> Step("done", "none")

\* variant: the handler returns after the call without reloading
run_md2docx_backend_NoReload(pc, outcome, is_dirty) ==
    CASE pc = "start" -> IF is_dirty THEN Step("save", "none") ELSE Step("call", "none")
      [] pc = "save" -> IF outcome = "ok" THEN Step("call", "none")
                        ELSE Step("done", "red:E")
      [] pc = "call" -> IF outcome = "throw" THEN Step("done", "red:E")
                        ELSE Step("done", "none")
      [] pc = "reload" -> Step("done", "none")

run_md2docx_backend(pc, outcome, is_dirty) ==
    CASE pc = "start" -> IF is_dirty THEN Step("save", "none") ELSE Step("call", "none")
      [] pc = "save" -> IF outcome = "ok" THEN Step("call", "none")
                        ELSE Step("done", "red:E")
      [] pc = "call" -> IF outcome = "throw" THEN Step("done", "red:E")
                        ELSE Step("reload", "none")
      [] pc = "reload" -> Step("done", "none")

run_patentability_backend(pc, outcome, is_dirty) ==
    CASE pc = "start" -> IF is_dirty THEN Step("save", "none") ELSE Step("call", "none")
      [] pc = "save" -> IF outcome = "ok" THEN Step("call", "none")
                        ELSE Step("done", "red:E")
      [] pc = "call" -> IF outcome = "throw" THEN Step("done", "red:E")
                        ELSE Step("reload", "none")
      [] pc = "reload" -> Step("done", "none")

\* a file name: <<stem, extension>>, or <<>> when no file is attached
ReviewPdfs == {<<>>, <<"r", ".pdf">>, <<"r", ".PDF">>, <<"r", ".txt">>}

\* fileUrl.toLowerCase().endsWith('.pdf')
EndsWithPdf(url) ==
    /\ url # <<>>
    /\ (IF url[2] = ".PDF" THEN ".pdf" ELSE url[2]) = ".pdf"

\* the status and prerequisite checks of the custom Run buttons, made on
\* frm.doc once the form has been saved and reloaded
RunChecks(is_done, is_running, running_alert, has_prerequisite) ==
    IF is_done THEN Step("done", "orange")
    ELSE IF is_running THEN Step("done", running_alert)
    ELSE IF ~has_prerequisite THEN Step("done", "red:fixed")
    ELSE Step("call", "none")

\* the common shape of the custom Run buttons
RunButton(pc, outcome, is_done, is_running, running_alert, has_prerequisite, new, is_dirty) ==
    LET checks == RunChecks(is_done, is_running, running_alert, has_prerequisite)
        dirty_block == IF is_dirty THEN Step("save_dirty", "none") ELSE checks
    IN  CASE pc = "start" -> IF new THEN Step("save_new", "none") ELSE dirty_block
          [] pc = "save_new" -> IF outcome = "ok" THEN Step("reload_new", "none")
                                ELSE Step("done", "red:E")
          [] pc = "reload_new" -> dirty_block
          [] pc = "save_dirty" -> IF outcome = "ok" THEN Step("reload_dirty", "none")
                                  ELSE Step("done", "red:E")
          [] pc = "reload_dirty" -> checks
          [] pc = "call" -> IF outcome = "ok" THEN Step("done", "blue")
                            ELSE Step("done", "red:E")

\* variant: a failed submission is submitted once more
run_tech_to_claims_Retries(pc, outcome, d, new, is_dirty) ==
    IF pc = "call" /\ outcome # "ok"
    THEN Step("call", "red:E")
    ELSE RunButton(pc, outcome, d.is_done = 1, d.is_running = 1, "orange",
                   d.tech # <<>>, new, is_dirty)

run_tech_to_claims(pc, outcome, d, new, is_dirty) ==
    RunButton(pc, outcome, d.is_done = 1, d.is_running = 1, "orange",
              d.tech # <<>>, new, is_dirty)

run_claims_to_docx(pc, outcome, d, new, is_dirty) ==
    RunButton(pc, outcome, d.is_done = 1, d.is_running = 1, "orange",
              d.claims # <<>>, new, is_dirty)

\* variant: any attached review file is accepted
run_review_to_revise_AnyFile(pc, outcome, d, new, is_dirty) ==
    RunButton(pc, outcome, d.is_done = 1, d.is_running = 1, "orange",
              d.review_pdf # <<>>, new, is_dirty)

run_review_to_revise(pc, outcome, d, new, is_dirty) ==
    RunButton(pc, outcome, d.is_done = 1, d.is_running = 1, "orange",
              EndsWithPdf(d.review_pdf), new, is_dirty)

run_md_to_docx(pc, outcome, d, new, is_dirty) ==
    RunButton(pc, outcome, d.is_done = 1, d.is_running = 1, "yellow", TRUE,
              new, is_dirty)

\* the upload button of Upload Final Docx
upload_final_docx(pc, outcome, d, new, is_dirty) ==
    LET checks == IF d.is_done = 1 THEN Step("done", "orange")
                  ELSE IF d.final_markdown = <<>> \/ d.final_docx = <<>>
                       THEN Step("done", "red:fixed")
                  ELSE Step("call", "none")
        dirty_block == IF is_dirty THEN Step("save_dirty", "none") ELSE checks
    IN  CASE pc = "start" -> IF new THEN Step("save_new", "none") ELSE dirty_block
          [] pc = "save_new" -> IF outcome = "ok" THEN Step("reload_new", "none")
                                ELSE Step("done", "red:E")
          [] pc = "reload_new" -> dirty_block
          [] pc = "save_dirty" -> IF outcome = "ok" THEN Step("reload_dirty", "none")
                                  ELSE Step("done", "red:E")
          [] pc = "reload_dirty" -> checks
          [] pc = "call" -> IF outcome = "ok" THEN Step("reload_after", "green")
                            ELSE Step("done", "red:E")
          [] pc = "reload_after" -> Step("done", "green")

\* the Run button of the callback-style MD To Docx script: it checks the
\* status, reloads, checks again and calls without a freeze
run_md_to_docx_callback(pc, outcome, d) ==
    LET checks(next) == IF d.is_done = 1 THEN Step("done", "orange")
                        ELSE IF d.is_running = 1 THEN Step("done", "yellow")
                        ELSE Step(next, "none")
    IN  CASE pc = "start" -> checks("reload_pre")
          [] pc = "reload_pre" -> checks("call")
          [] pc = "call" -> IF outcome = "ok" THEN Step("done", "blue")
                            ELSE IF outcome = "fail" THEN Step("done", "red:E")
                            ELSE Step("done", "red:fixed")

\* ------------------------------------------------------------------------
\* State
\* ------------------------------------------------------------------------
VARIABLES
    gkind,        \* SpecGate: doctype whose gate is applied
    gdoc,         \* SpecGate: frm.doc
    gbtn,         \* SpecGate: enabled state of the call/rerun/cancel buttons, per task
    grefreshed,   \* SpecGate: the gate has been applied to gdoc
    grid_on,      \* SpecGate: typeof grid.on === 'function' for the grids of the form
    table_bound,  \* SpecGate: the table fields whose frm._<table>_bound flag is set
    kind,         \* Spec: the form script that is loaded
    task,         \* Spec: the task the user works on (a step of Patent Workflow)
    server,       \* Spec: the document as stored by the backend
    doc,          \* Spec: frm.doc
    dirty,        \* Spec: frm.is_dirty()
    is_new,       \* Spec: frm.is_new()
    buttons,      \* Spec: enabled state of the call/rerun/cancel buttons
    inv,          \* Spec: the invocations of the run handler, by slot
    reloads,      \* Spec: frm.reload_doc() requests in flight
    lkind,          \* SpecListen: the form script that is loaded
    realtime_bound, \* SpecListen: frm._realtime_bound
    handlers,       \* SpecListen: handlers registered with frappe.realtime.on, per channel
    docname,        \* SpecListen: frm.doc.name
    bound_docname,  \* SpecListen: frm.doc.name when the listeners were bound
    published,      \* SpecListen: events published and not yet delivered
    refreshes,      \* SpecListen: refresh events so far
    last,           \* SpecListen: the event delivered last and what it produced
    ukind,          \* SpecLinks: the form script that is loaded
    clock,          \* SpecLinks: the time, in minutes
    link_row,       \* SpecLinks: the row of frm.doc.generated_files that is clicked
    click_handlers, \* SpecLinks: handlers bound to click.custom-clickable on the grid
    style_elements, \* SpecLinks: style.custom-clickable-style elements in the grid
    download_button, \* SpecLinks: the class of a download button
    urefreshes,     \* SpecLinks: refresh events so far
    act,            \* SpecLinks: the click handled last and what it produced
    rscript,        \* SpecRemote: the form script that is loaded
    rhandler,       \* SpecRemote: the handler that runs or ran last
    rpc,            \* SpecRemote: the position of the handler
    rdoc,           \* SpecRemote: what the handlers read of frm and frm.doc
    rlog,           \* SpecRemote: what the handler showed since the last click
    vdoc, \* SpecValidate: frm.doc of the Review To Revise form
    vattachments, \* SpecValidate: frm.get_docinfo().attachments
    vresult, \* SpecValidate: what validate did last
    opc, \* SpecOverlap: the position of run_step_backend
    oserver, \* SpecOverlap: is_running and is_done of the step as stored by the backend
    odoc, \* SpecOverlap: is_running and is_done of the step in frm.doc
    oreloads, \* SpecOverlap: frm.reload_doc() requests in flight
    ocompleted, \* SpecOverlap: the reloads that have completed, in the order of completion
    chat_messages, \* SpecChat: frm.doc.chat_messages
    chat_input, \* SpecChat: the text of the .chat-input box
    send_disabled, \* SpecChat: the disabled property of the send button
    anthropic_calls, \* SpecChat: the prompts whose anthropic_call is in flight
    sends, \* SpecChat: the prompts sent so far
    plus_handler, \* SpecSuccessor: the '+' button handler that is registered
    plus_doc, \* SpecSuccessor: frm.doc of the form that carries the button
    plus_pc, \* SpecSuccessor: the position of the handler
    plus_created, \* SpecSuccessor: the successor documents created so far
    plus_last \* SpecSuccessor: what the last click did

gvars == <<gkind, gdoc, gbtn, grefreshed, grid_on, table_bound>>

fvars == <<kind, task, server, doc, dirty, is_new, buttons, inv, reloads>>

lvars == <<lkind, realtime_bound, handlers, docname, bound_docname, published,
           refreshes, last>>

\* the variables of SpecLinks
uvars == <<ukind, clock, link_row, click_handlers, style_elements, download_button,
           urefreshes, act>>

\* the variables of the specifications other than SpecGate, Spec and SpecCancel
\* the variables of SpecRemote
rvars == <<rscript, rhandler, rpc, rdoc, rlog>>

\* the variables of SpecValidate
vvars == <<vdoc, vattachments, vresult>>

\* the variables of SpecOverlap
ovars == <<opc, oserver, odoc, oreloads, ocompleted>>

\* the variables of SpecChat
cvars == <<chat_messages, chat_input, send_disabled, anthropic_calls, sends>>

\* the variables of SpecSuccessor
pvars == <<plus_handler, plus_doc, plus_pc, plus_created, plus_last>>

xvars == <<lvars, uvars, rvars, vvars, ovars, cvars, pvars>>

vars == <<gvars, fvars, xvars>>

ListenUnused ==
    /\ lkind = "none"
    /\ realtime_bound = FALSE
    /\ handlers = <<>>
    /\ docname = "none"
    /\ bound_docname = "none"
    /\ published = {}
    /\ refreshes = 0
    /\ last = <<>>

LinksUnused ==
    /\ ukind = "none"
    /\ clock = 0
    /\ link_row = <<>>
    /\ click_handlers = 0
    /\ style_elements = 0
    /\ download_button = "none"
    /\ urefreshes = 0
    /\ act = <<>>

RemoteUnused ==
    /\ rscript = "none"
    /\ rhandler = "none"
    /\ rpc = "idle"
    /\ rdoc = <<>>
    /\ rlog = <<>>

ValidateUnused ==
    /\ vdoc = <<>>
    /\ vattachments = <<>>
    /\ vresult = "none"

OverlapUnused ==
    /\ opc = "none"
    /\ oserver = <<>>
    /\ odoc = <<>>
    /\ oreloads = {}
    /\ ocompleted = <<>>

ChatUnused ==
    /\ chat_messages = <<>>
    /\ chat_input = <<>>
    /\ send_disabled = FALSE
    /\ anthropic_calls = {}
    /\ sends = 0

SuccessorUnused ==
    /\ plus_handler = "none"
    /\ plus_doc = <<>>
    /\ plus_pc = "none"
    /\ plus_created = 0
    /\ plus_last = <<>>

XUnused == ListenUnused /\ LinksUnused /\ RemoteUnused /\ ValidateUnused /\ OverlapUnused /\ ChatUnused /\ SuccessorUnused

\* ------------------------------------------------------------------------
\* SpecGate: the gates applied to bounded documents
\* ------------------------------------------------------------------------
CountKinds == {"Review Reply", "Md2docx", "Patentability"}

Tasks(k) ==
    CASE k = "Review Reply" -> {"reviewreply"}
      [] k = "Md2docx" -> {"md2docx"}
      [] k = "Patentability" -> {"patentability"}
      [] k = "Patent Workflow" -> Steps

\* what the refresh handler of each doctype leaves on the buttons
ApplyGate(k, d) ==
    CASE k = "Review Reply" -> [t \in {"reviewreply"} |-> update_reviewreply_buttons(d)]
      [] k = "Md2docx" -> [t \in {"md2docx"} |-> update_md2docx_buttons(d)]
      [] k = "Patentability" -> [t \in {"patentability"} |-> update_patentability_buttons(d)]
      [] k = "Patent Workflow" -> update_step_buttons(d)

\* the buttons as rendered before any handler has touched them
DefaultButtons(k) == [t \in Tasks(k) |-> Btn(TRUE, TRUE, TRUE)]

ReviewReplyDocs ==
    [is_running_reviewreply : {0, 1}, is_done_reviewreply : {0, 1},
     success_count_reviewreply : 0..MaxCount,
     patent_title : Texts, table_upload_review : Tables, table_upload_pdoc : Tables]

Md2docxDocs ==
    [is_running_md2docx : {0, 1}, is_done_md2docx : {0, 1},
     success_count_md2docx : 0..MaxCount, md : Texts]

PatentabilityDocs ==
    [is_running_patentability : {0, 1}, is_done_patentability : {0, 1},
     success_count_patentability : 0..MaxCount,
     patent_title : Texts, table_upload_patentability : Tables]

\* a Patent Workflow document in which the steps outside S are untouched
WorkflowDoc(S, r, d, tx, tb) ==
    LET txt(s) == IF s \in S THEN tx[s] ELSE <<>>
        tab(s) == IF s \in S THEN tb[s] ELSE <<>>
    IN  [is_running |-> [s \in Steps |-> IF s \in S THEN r[s] ELSE 0],
         is_done |-> [s \in Steps |-> IF s \in S THEN d[s] ELSE 0],
         patent_title |-> txt("title2scene"),
         scene |-> txt("scene2tech"),
         tech |-> txt("tech2application"),
         application |-> txt("align2tex2docx"),
         table_upload_info2tech |-> tab("info2tech"),
         table_upload_review2revise |-> tab("review2revise")]

\* number of steps of a Patent Workflow document that are not blank
Varied(d) ==
    Cardinality({s \in Steps : \/ d.is_running[s] # 0
                               \/ d.is_done[s] # 0
                               \/ d[field_map[s]] # <<>>})

InitGateDoc ==
    \/ /\ gkind = "Review Reply"
       /\ gdoc \in ReviewReplyDocs
    \/ /\ gkind = "Md2docx"
       /\ gdoc \in Md2docxDocs
    \/ /\ gkind = "Patentability"
       /\ gdoc \in PatentabilityDocs
    \/ /\ gkind = "Patent Workflow"
       /\ \E S \in SUBSET Steps :
            /\ Cardinality(S) <= MaxVaried
            /\ \E r \in [S -> {0, 1}], d \in [S -> {0, 1}] :
               \E tx \in [{s \in S : ~is_table(s)} -> Texts],
                  tb \in [{s \in S : is_table(s)} -> Tables] :
                    gdoc = WorkflowDoc(S, r, d, tx, tb)

\* SpecGate opens no form
FormUnused ==
    /\ kind = "none"
    /\ task = "none"
    /\ server = <<>>
    /\ doc = <<>>
    /\ dirty = FALSE
    /\ is_new = FALSE
    /\ buttons = <<>>
    /\ inv = <<>>
    /\ reloads = {}

InitGate ==
    /\ InitGateDoc
    /\ gbtn = DefaultButtons(gkind)
    /\ grefreshed = FALSE
    /\ grid_on \in (IF gkind = "Patent Workflow" THEN BOOLEAN ELSE {FALSE})
    /\ table_bound = {}
    /\ FormUnused
    /\ XUnused

\* the table-typed prerequisite fields of each doctype
GateTables(k) ==
    CASE k = "Review Reply" -> {"table_upload_review", "table_upload_pdoc"}
      [] k = "Md2docx" -> {}
      [] k = "Patentability" -> {"table_upload_patentability"}
      [] k = "Patent Workflow" -> {"table_upload_info2tech", "table_upload_review2revise"}

\* bind_table_events_once(frm, table_fieldname): binds row_removed, row_added
\* and data_changed to the gate when the grid has an on function
bind_table_events_once(bound, f, has_on) ==
    IF f \in bound THEN bound
    ELSE IF has_on THEN bound \cup {f}
    ELSE bound

\* the bind_table_events_once calls of refresh
refresh_binds_tables(k, bound, has_on) ==
    IF k = "Patent Workflow"
    THEN bind_table_events_once(
             bind_table_events_once(bound, "table_upload_info2tech", has_on),
             "table_upload_review2revise", has_on)
    ELSE bound

\* refresh(frm): the gate is applied to the document
GateRefresh ==
    /\ gbtn' = ApplyGate(gkind, gdoc)
    /\ grefreshed' = TRUE
    /\ table_bound' = refresh_binds_tables(gkind, table_bound, grid_on)
    /\ UNCHANGED <<gkind, gdoc, grid_on>>
    /\ UNCHANGED <<fvars, xvars>>

\* the text fields that have a change handler bound to the gate
GateTextFields(k) ==
    CASE k = "Review Reply" -> {"patent_title"}
      [] k = "Md2docx" -> {"md"}
      [] k = "Patentability" -> {"patent_title"}
      [] k = "Patent Workflow" -> {"patent_title", "scene", "tech", "application"}

\* patent_title / md / scene / tech / application: the user edits the
\* field of the rendered form and its change handler applies the gate
GateFieldChange ==
    \E f \in GateTextFields(gkind), v \in Texts :
        /\ grefreshed
        /\ v # gdoc[f]
        /\ gdoc' = [gdoc EXCEPT ![f] = v]
        /\ gkind = "Patent Workflow" => Varied(gdoc') <= MaxVaried
        /\ gbtn' = ApplyGate(gkind, gdoc')
        /\ grefreshed' = TRUE
        /\ UNCHANGED <<gkind, grid_on, table_bound>>
        /\ UNCHANGED <<fvars, xvars>>

\* the tables one row operation away: a row added, removed or edited
RowChanges(rows) ==
    {Append(rows, r) : r \in (IF Len(rows) < MaxRows THEN {[file |-> ""]} ELSE {})}
        \cup {[j \in 1..(Len(rows) - 1) |-> IF j < i THEN rows[j] ELSE rows[j + 1]] :
                 i \in 1..Len(rows)}
        \cup {[rows EXCEPT ![i].file = v] : i \in 1..Len(rows), v \in Files \ {""}}

\* whether a row operation on table field f runs the gate: the handler
\* registered under the field name (Review Reply, Patentability), or the grid
\* events bound by bind_table_events_once (Patent Workflow)
table_change_applies_gate(k, f, bound) ==
    IF k = "Patent Workflow" THEN f \in bound ELSE TRUE

\* the user adds, removes or edits a row of a table-typed prerequisite
GateTableChange ==
    \E f \in GateTables(gkind) :
        \E v \in RowChanges(gdoc[f]) :
            /\ grefreshed
            /\ v # gdoc[f]
            /\ gdoc' = [gdoc EXCEPT ![f] = v]
            /\ gkind = "Patent Workflow" => Varied(gdoc') <= MaxVaried
            /\ gbtn' = IF table_change_applies_gate(gkind, f, table_bound)
                       THEN ApplyGate(gkind, gdoc')
                       ELSE gbtn
            /\ UNCHANGED <<gkind, grefreshed, grid_on, table_bound>>
            /\ UNCHANGED <<fvars, xvars>>

NextGate == GateRefresh \/ GateFieldChange \/ GateTableChange

SpecGate == InitGate /\ [][NextGate]_vars

\* ------------------------------------------------------------------------
\* Gate inputs as the handlers derive them
\* ------------------------------------------------------------------------
IsRunningOf(k, d, t) ==
    CASE k = "Review Reply" -> d.is_running_reviewreply = 1
      [] k = "Md2docx" -> d.is_running_md2docx = 1
      [] k = "Patentability" -> d.is_running_patentability = 1
      [] k = "Patent Workflow" -> d.is_running[t] = 1

IsDoneOf(k, d, t) ==
    CASE k = "Review Reply" -> d.is_done_reviewreply = 1
      [] k = "Md2docx" -> d.is_done_md2docx = 1
      [] k = "Patentability" -> d.is_done_patentability = 1
      [] k = "Patent Workflow" -> d.is_done[t] = 1

SuccessCountOf(k, d) ==
    CASE k = "Review Reply" -> d.success_count_reviewreply
      [] k = "Md2docx" -> d.success_count_md2docx
      [] k = "Patentability" -> d.success_count_patentability

HasValueOf(k, d, t) ==
    CASE k = "Review Reply" -> has_value_reviewreply(d)
      [] k = "Md2docx" -> has_value_md2docx(d)
      [] k = "Patentability" -> has_value_patentability(d)
      [] k = "Patent Workflow" -> has_value_step(d, t)

\* the table-typed prerequisite fields of a task
TablePrereqs(k, t) ==
    CASE k = "Review Reply" -> {"table_upload_review", "table_upload_pdoc"}
      [] k = "Md2docx" -> {}
      [] k = "Patentability" -> {"table_upload_patentability"}
      [] k = "Patent Workflow" -> IF is_table(t) THEN {field_map[t]} ELSE {}

\* ------------------------------------------------------------------------
\* Spec: one open form
\* ------------------------------------------------------------------------
ButtonKinds == {"Tech To Claims", "Claims To Docx", "Review To Revise", "MD To Docx"}

FormKinds == GateKinds \cup ButtonKinds
             \cup {"Upload Final Docx", "MD To Docx (callback)"}

\* the scripts whose handler asks frm.is_new()
NewAwareKinds == ButtonKinds \cup {"Upload Final Docx"}

\* the tasks followed on the open form: for Patent Workflow one step with a
\* text prerequisite and one with a table prerequisite
FormTasks(k) ==
    IF k = "Patent Workflow" THEN {"title2scene", "info2tech"}
    ELSE IF k \in GateKinds THEN Tasks(k) ELSE {"run"}

BlankDoc(k) ==
    CASE k = "Review Reply" ->
            [is_running_reviewreply |-> 0, is_done_reviewreply |-> 0,
             success_count_reviewreply |-> 0, patent_title |-> <<>>,
             table_upload_review |-> <<>>, table_upload_pdoc |-> <<>>]
      [] k = "Md2docx" ->
            [is_running_md2docx |-> 0, is_done_md2docx |-> 0,
             success_count_md2docx |-> 0, md |-> <<>>]
      [] k = "Patentability" ->
            [is_running_patentability |-> 0, is_done_patentability |-> 0,
             success_count_patentability |-> 0, patent_title |-> <<>>,
             table_upload_patentability |-> <<>>]
      [] k = "Patent Workflow" -> WorkflowDoc({}, <<>>, <<>>, <<>>, <<>>)
      [] k = "Tech To Claims" -> [is_running |-> 0, is_done |-> 0, tech |-> <<>>]
      [] k = "Claims To Docx" -> [is_running |-> 0, is_done |-> 0, claims |-> <<>>]
      [] k = "Review To Revise" -> [is_running |-> 0, is_done |-> 0, review_pdf |-> <<>>]
      [] k = "MD To Docx" -> [is_running |-> 0, is_done |-> 0, md |-> <<>>]
      [] k = "MD To Docx (callback)" -> [is_running |-> 0, is_done |-> 0, md |-> <<>>]
      [] k = "Upload Final Docx" ->
            [is_running |-> 0, is_done |-> 0, final_markdown |-> <<>>, final_docx |-> <<>>]

\* the task flags of a document, as the backend writes them
TaskRunning(k, t, d) ==
    CASE k = "Review Reply" -> d.is_running_reviewreply
      [] k = "Md2docx" -> d.is_running_md2docx
      [] k = "Patentability" -> d.is_running_patentability
      [] k = "Patent Workflow" -> d.is_running[t]
      [] OTHER -> d.is_running

TaskCount(k, d) == IF k \in CountKinds THEN SuccessCountOf(k, d) ELSE 0

SetTaskState(k, t, d, r, dn, c) ==
    CASE k = "Review Reply" ->
            [d EXCEPT !.is_running_reviewreply = r, !.is_done_reviewreply = dn,
                      !.success_count_reviewreply = c]
      [] k = "Md2docx" ->
            [d EXCEPT !.is_running_md2docx = r, !.is_done_md2docx = dn,
                      !.success_count_md2docx = c]
      [] k = "Patentability" ->
            [d EXCEPT !.is_running_patentability = r, !.is_done_patentability = dn,
                      !.success_count_patentability = c]
      [] k = "Patent Workflow" ->
            [d EXCEPT !.is_running[t] = r, !.is_done[t] = dn]
      [] OTHER -> [d EXCEPT !.is_running = r, !.is_done = dn]

\* the fields the user fills in before running the task
InputFields(k, t) ==
    CASE k = "Review Reply" -> {"patent_title", "table_upload_review", "table_upload_pdoc"}
      [] k = "Md2docx" -> {"md"}
      [] k = "Patentability" -> {"patent_title", "table_upload_patentability"}
      [] k = "Patent Workflow" -> {field_map[t]}
      [] k = "Tech To Claims" -> {"tech"}
      [] k = "Claims To Docx" -> {"claims"}
      [] k = "Review To Revise" -> {"review_pdf"}
      [] k = "MD To Docx" -> {"md"}
      [] k = "MD To Docx (callback)" -> {"md"}
      [] k = "Upload Final Docx" -> {"final_markdown", "final_docx"}

FilledValue(f) ==
    IF f \in {"table_upload_review", "table_upload_pdoc", "table_upload_patentability",
              "table_upload_info2tech", "table_upload_review2revise"}
    THEN <<[file |-> "f"]>>
    ELSE IF f = "review_pdf" THEN <<"r", ".pdf">>
    ELSE <<"a">>

\* the edits the user makes: every input field cleared, or every one filled;
\* review_pdf may also be given a file that is not a PDF
InputChoices(k, t) ==
    {[f \in InputFields(k, t) |-> <<>>], [f \in InputFields(k, t) |-> FilledValue(f)]}
        \cup (IF k = "Review To Revise"
              THEN {[f \in InputFields(k, t) |-> <<"r", ".txt">>]}
              ELSE {})

InputsOf(k, t, d) == [f \in InputFields(k, t) |-> d[f]]

\* variant: a field change also resets the done flag on frm.doc
WithInputs_ResetsDone(d, c) ==
    [f \in DOMAIN d |->
        IF f \in DOMAIN c THEN c[f]
        ELSE IF f \in {"is_done_reviewreply", "is_done_md2docx", "is_done_patentability"}
             THEN 0
             ELSE d[f]]

WithInputs(d, c) == [f \in DOMAIN d |-> IF f \in DOMAIN c THEN c[f] ELSE d[f]]

\* refresh(frm): the gate doctypes set their buttons, the others have none
Refresh(k, d) == IF k \in GateKinds THEN ApplyGate(k, d) ELSE <<>>

\* the run handler of each script
Handler(k, pc, outcome, d, new, is_dirty) ==
    CASE k = "Patent Workflow" -> run_step_backend(pc, outcome, is_dirty)
      [] k = "Review Reply" -> run_reviewreply_backend(pc, outcome, is_dirty)
      [] k = "Md2docx" -> run_md2docx_backend(pc, outcome, is_dirty)
      [] k = "Patentability" -> run_patentability_backend(pc, outcome, is_dirty)
      [] k = "Tech To Claims" -> run_tech_to_claims(pc, outcome, d, new, is_dirty)
      [] k = "Claims To Docx" -> run_claims_to_docx(pc, outcome, d, new, is_dirty)
      [] k = "Review To Revise" -> run_review_to_revise(pc, outcome, d, new, is_dirty)
      [] k = "MD To Docx" -> run_md_to_docx(pc, outcome, d, new, is_dirty)
      [] k = "Upload Final Docx" -> upload_final_docx(pc, outcome, d, new, is_dirty)
      [] k = "MD To Docx (callback)" -> run_md_to_docx_callback(pc, outcome, d)

\* frappe.call({freeze: true}): every script but the callback-style one
Freezes(k) == k # "MD To Docx (callback)"

\* the scripts that bind <task>_done / <task>_failed listeners on refresh
Listens(k) == k # "Upload Final Docx"

SavePcs == {"save", "save_new", "save_dirty"}
ReloadPcs == {"reload", "reload_new", "reload_dirty", "reload_after", "reload_pre"}

IdleInv == [pc |-> "idle", calls |-> 0, alert |-> "none", save |-> "none",
            result |-> "none", late_reloads |-> 0]

Slots == 1..MaxInv

\* the freeze overlay is up while a save or a freezing call is in flight
Frozen ==
    \E i \in Slots : \/ inv[i].pc \in SavePcs
                     \/ inv[i].pc = "call" /\ Freezes(kind)

\* the slot a new invocation takes
FreeSlot(i) ==
    /\ inv[i].pc \in {"idle", "done"}
    /\ \A j \in Slots : j < i => inv[j].pc \notin {"idle", "done"}

\* the invocation record after the handler has run up to its next await
Enter(rec, st) ==
    [rec EXCEPT !.pc = st.next,
                !.alert = IF st.alert = "none" THEN @ ELSE st.alert,
                !.calls = IF st.next = "call" THEN @ + 1 ELSE @,
                !.late_reloads = IF st.next \in ReloadPcs /\ rec.result # "none"
                                 THEN @ + 1 ELSE @]

\* inv keeps the handlers in progress and the one that finished last
Resume(i, rec, st) ==
    [j \in Slots |->
        IF j = i THEN Enter(rec, st)
        ELSE IF st.next = "done" /\ inv[j].pc = "done" THEN IdleInv
        ELSE inv[j]]

NewReload(i) == [owner |-> i, read |-> FALSE, snap |-> BlankDoc(kind)]

\* frm.reload_doc() issued by invocation i when it reaches a reload await
IssueReload(pending, i, st) ==
    IF st.next \in ReloadPcs THEN pending \cup {NewReload(i)} ELSE pending

CanIssue(pending, st) ==
    st.next \in ReloadPcs => Cardinality(pending) < MaxReloads

GateUnused ==
    /\ gkind = "none"
    /\ gdoc = <<>>
    /\ gbtn = <<>>
    /\ grefreshed = FALSE
    /\ grid_on = FALSE
    /\ table_bound = {}

\* a form opened on a stored document, or on a new unsaved one
Init ==
    /\ GateUnused
    /\ XUnused
    /\ kind \in FormKinds
    /\ task \in FormTasks(kind)
    /\ is_new \in (IF kind \in NewAwareKinds THEN BOOLEAN ELSE {FALSE})
    /\ \E c \in InputChoices(kind, task) :
          /\ doc = WithInputs(BlankDoc(kind), c)
          /\ server = IF is_new THEN BlankDoc(kind) ELSE doc
    /\ dirty = is_new
    /\ buttons = Refresh(kind, doc)
    /\ inv = [i \in Slots |-> IdleInv]
    /\ reloads = {}

\* the handler of a button starts: it runs up to its first await
Start ==
    /\ ~Frozen
    /\ \E i \in Slots :
          /\ FreeSlot(i)
          /\ LET st == Handler(kind, "start", "none", doc, is_new, dirty)
             IN  /\ CanIssue(reloads, st)
                 /\ inv' = Resume(i, IdleInv, st)
                 /\ reloads' = IssueReload(reloads, i, st)
    /\ UNCHANGED <<xvars, gvars, kind, task, server, doc, dirty, is_new, buttons>>

\* call_<task>: the first-run button of a gate doctype
ClickCall ==
    /\ kind \in GateKinds
    /\ buttons[task].call
    /\ Start

\* rerun_<task>: the force-rerun button of a gate doctype
ClickRerun ==
    /\ kind \in GateKinds
    /\ buttons[task].rerun
    /\ Start

\* the custom Run / upload button
ClickRun ==
    /\ kind \notin GateKinds
    /\ Start

\* the user edits the input fields; the change handlers apply the gate
EditFields ==
    /\ ~Frozen
    /\ \E c \in InputChoices(kind, task) :
          /\ c # InputsOf(kind, task, doc)
          /\ doc' = WithInputs(doc, c)
    /\ dirty' = TRUE
    /\ buttons' = Refresh(kind, doc')
    /\ UNCHANGED <<xvars, gvars, kind, task, server, is_new, inv, reloads>>

\* frm.save() resolves: the backend stores the fields and returns the document
SaveResolves ==
    \E i \in Slots :
        /\ inv[i].pc \in SavePcs
        /\ server' = WithInputs(server, InputsOf(kind, task, doc))
        /\ doc' = server'
        /\ dirty' = FALSE
        /\ is_new' = FALSE
        /\ buttons' = Refresh(kind, doc')
        /\ LET st == Handler(kind, inv[i].pc, "ok", doc', FALSE, FALSE)
           IN  /\ CanIssue(reloads, st)
               /\ inv' = Resume(i, [inv[i] EXCEPT !.save = "ok"], st)
               /\ reloads' = IssueReload(reloads, i, st)
        /\ UNCHANGED <<xvars, gvars, kind, task>>

\* frm.save() rejects
SaveRejects ==
    \E i \in Slots :
        /\ inv[i].pc \in SavePcs
        /\ LET st == Handler(kind, inv[i].pc, "fail", doc, is_new, dirty)
           IN  /\ CanIssue(reloads, st)
               /\ inv' = Resume(i, [inv[i] EXCEPT !.save = "fail"], st)
               /\ reloads' = IssueReload(reloads, i, st)
        /\ UNCHANGED <<xvars, gvars, kind, task, server, doc, dirty, is_new, buttons>>

\* frappe.call resolves with success: the backend run method has accepted the
\* request and started the task, and the handler resumes
CallSucceeds ==
    \E i \in Slots :
        /\ inv[i].pc = "call"
        /\ TaskRunning(kind, task, server) = 0
        /\ server' = SetTaskState(kind, task, server, 1, 0, TaskCount(kind, server))
        /\ LET st == Handler(kind, "call", "ok", doc, is_new, dirty)
           IN  /\ CanIssue(reloads, st)
               /\ inv' = Resume(i, [inv[i] EXCEPT !.result = "ok"], st)
               /\ reloads' = IssueReload(reloads, i, st)
        /\ UNCHANGED <<xvars, gvars, kind, task, doc, dirty, is_new, buttons>>

\* frappe.call resolves with {success: false, error} ("fail") or rejects
\* ("throw"): the backend has changed nothing, and the handler resumes
CallFails ==
    \E i \in Slots, r \in {"fail", "throw"} :
        /\ inv[i].pc = "call"
        /\ LET st == Handler(kind, "call", r, doc, is_new, dirty)
           IN  /\ CanIssue(reloads, st)
               /\ inv' = Resume(i, [inv[i] EXCEPT !.result = r], st)
               /\ reloads' = IssueReload(reloads, i, st)
        /\ UNCHANGED <<xvars, gvars, kind, task, server, doc, dirty, is_new, buttons>>

\* the backend reads the document for a reload request
ReloadReads ==
    \E r \in reloads :
        /\ ~r.read
        /\ reloads' = (reloads \ {r}) \cup {[r EXCEPT !.read = TRUE, !.snap = server]}
        /\ UNCHANGED <<xvars, gvars, kind, task, server, doc, dirty, is_new, buttons, inv>>

\* frm.reload_doc() resolves: the document is replaced, the form refreshed,
\* and the handler that awaited it resumes
ReloadResolves ==
    \E r \in reloads :
        /\ r.read
        /\ doc' = r.snap
        /\ dirty' = FALSE
        /\ buttons' = Refresh(kind, doc')
        /\ IF r.owner = 0
           THEN /\ reloads' = reloads \ {r}
                /\ inv' = inv
           ELSE LET i == r.owner
                    st == Handler(kind, inv[i].pc, "ok", doc', is_new, FALSE)
                IN  /\ inv' = Resume(i, inv[i], st)
                    /\ reloads' = IssueReload(reloads \ {r}, i, st)
        /\ UNCHANGED <<xvars, gvars, kind, task, server, is_new>>

\* the backend task completes and publishes <task>_done for this document;
\* the listener bound by bind_realtime_events shows an alert and reloads
TaskCompletes ==
    /\ TaskRunning(kind, task, server) = 1
    /\ kind \in CountKinds => TaskCount(kind, server) < MaxSuccess
    /\ server' = SetTaskState(kind, task, server, 0, 1, TaskCount(kind, server) + 1)
    /\ IF Listens(kind)
       THEN /\ Cardinality(reloads) < MaxReloads
            /\ reloads' = reloads \cup {NewReload(0)}
       ELSE reloads' = reloads
    /\ UNCHANGED <<xvars, gvars, kind, task, doc, dirty, is_new, buttons, inv>>

\* the backend task fails and publishes <task>_failed for this document
TaskFails ==
    /\ TaskRunning(kind, task, server) = 1
    /\ server' = SetTaskState(kind, task, server, 0, 0, TaskCount(kind, server))
    /\ IF Listens(kind)
       THEN /\ Cardinality(reloads) < MaxReloads
            /\ reloads' = reloads \cup {NewReload(0)}
       ELSE reloads' = reloads
    /\ UNCHANGED <<xvars, gvars, kind, task, doc, dirty, is_new, buttons, inv>>

Next ==
    \/ ClickCall
    \/ ClickRerun
    \/ ClickRun
    \/ EditFields
    \/ SaveResolves
    \/ SaveRejects
    \/ CallSucceeds
    \/ CallFails
    \/ ReloadReads
    \/ ReloadResolves
    \/ TaskCompletes
    \/ TaskFails

Spec == Init /\ [][Next]_vars

\* ------------------------------------------------------------------------
\* C1  Whatever is_running, is_done, success_count and the prerequisites
\*     are, no gate enables the run button and the rerun button of a task
\*     together, and the cancel button is enabled exactly when the task is
\*     running.
\* ------------------------------------------------------------------------
C1_RunRerunExclusive ==
    grefreshed =>
        \A t \in Tasks(gkind) :
            /\ ~(gbtn[t].call /\ gbtn[t].rerun)
            /\ gbtn[t].cancel <=> IsRunningOf(gkind, gdoc, t)

C1_Witness ==
    /\ grefreshed
    /\ gkind = "Patent Workflow"
    /\ gbtn["title2scene"].rerun
    /\ gbtn["info2tech"].cancel

\* ------------------------------------------------------------------------
\* C2  The buttons set by the success-count gates (Review Reply, Md2docx,
\*     Patentability) equal the reference policy: with success_count > 0
\*     run is off, rerun = has_required_inputs and not running, cancel =
\*     running; otherwise run = has_required_inputs and not running and not
\*     done, rerun is off, cancel = running.
\* ------------------------------------------------------------------------
ReferencePolicy(running, done, count, has_inputs) ==
    [call |-> (count = 0) /\ has_inputs /\ ~running /\ ~done,
     rerun |-> (count > 0) /\ has_inputs /\ ~running,
     cancel |-> running]

C2_MatchesReferencePolicy ==
    (grefreshed /\ gkind \in CountKinds) =>
        \A t \in Tasks(gkind) :
            gbtn[t] = ReferencePolicy(IsRunningOf(gkind, gdoc, t),
                                      IsDoneOf(gkind, gdoc, t),
                                      SuccessCountOf(gkind, gdoc),
                                      HasValueOf(gkind, gdoc, t))

C2_Witness ==
    /\ grefreshed
    /\ gkind = "Patentability"
    /\ gdoc.success_count_patentability > 0
    /\ gdoc.is_done_patentability = 0
    /\ gbtn["patentability"].rerun

\* ------------------------------------------------------------------------
\* C4  For every table-typed prerequisite of every gate, run or rerun is
\*     enabled only if at least one row of the table has its file sub-field
\*     populated.
\* ------------------------------------------------------------------------
HasPopulatedRow(rows) == \E i \in DOMAIN rows : rows[i].file # ""

C4_TableNeedsPopulatedRow ==
    grefreshed =>
        \A t \in Tasks(gkind) :
            (gbtn[t].call \/ gbtn[t].rerun) =>
                \A f \in TablePrereqs(gkind, t) : HasPopulatedRow(gdoc[f])

\* ------------------------------------------------------------------------
\* Claims about the run handlers (Spec)
\* ------------------------------------------------------------------------
RedAlerts == {"red:E", "red:fixed"}

\* the scripts whose run handler is run_step_backend or one of its copies
BackendInvokerKinds == GateKinds

\* C3  Once the success count held by the form is greater than 0, the
\*     first-run button of the task is disabled in the next state, and so in
\*     every later one: no step leads from a form whose success count is
\*     positive to a form whose first-run button is enabled.
C3_FirstRunStaysDisabled ==
    [][(kind \in CountKinds /\ SuccessCountOf(kind, doc) > 0)
          => ~buttons'[task].call]_vars

\* C5  When frm.save() fails in an invocation, the handler has finished, it
\*     has not called the remote run method, and it has shown an error alert.
C5_SaveFailureAborts ==
    \A i \in Slots :
        inv[i].save = "fail" =>
            /\ inv[i].pc = "done"
            /\ inv[i].calls = 0
            /\ inv[i].alert \in RedAlerts

C5_Witness ==
    \E i \in Slots : /\ inv[i].save = "fail"
                     /\ inv[i].pc = "done"
                     /\ dirty

\* C6  At most one remote run call started from the form is outstanding at
\*     any time, whichever script handles the Run button.
C6_OneCallOutstanding ==
    Cardinality({i \in Slots : inv[i].pc = "call"}) <= 1

\* C7  An invocation whose remote call returned {success: false, error}
\*     finishes with an error alert carrying the error text.
C7_FailurePayloadNotified ==
    \A i \in Slots :
        (inv[i].pc = "done" /\ inv[i].result = "fail") => inv[i].alert = "red:E"

C9_ThrowAfterSave ==
    [][\A i \in Slots :
          (inv[i].pc = "call" /\ inv[i].save = "ok" /\ inv'[i].result = "throw")
              => /\ inv'[i].pc = "done"
                 /\ ~dirty'
                 /\ inv'[i].alert = "red:E"
                 /\ inv'[i].late_reloads = 0
                 /\ inv'[i].calls = 1]_vars

C9_Witness ==
    \E i \in Slots : /\ inv[i].pc = "done"
                     /\ inv[i].save = "ok"
                     /\ inv[i].result = "throw"
                     /\ inv[i].alert = "red:E"
                     /\ ~dirty

\* C10 One invocation issues the remote run method at most once, whether the
\*     save failed, the call threw or the call returned a failure payload.
C10_AtMostOneCall ==
    \A i \in Slots : inv[i].calls <= 1

C10_Witness ==
    \E i \in Slots : /\ inv[i].pc = "done"
                     /\ inv[i].calls = 1
                     /\ inv[i].result \in {"fail", "throw"}
                     /\ kind \in ButtonKinds

\* ------------------------------------------------------------------------
\* SpecCancel: the cancel buttons of the gate doctypes
\*
\* Outcomes of the cancel_task call: "ok" (resolved, r.message empty), "msg"
\* (resolved with a message), "throw" (rejected).
\* ------------------------------------------------------------------------
cancel_step_backend(pc, outcome) ==
    CASE pc = "start" -> Step("call", "none")
      [] pc = "call" -> IF outcome = "throw" THEN Step("done", "red:E")
                        ELSE IF outcome = "msg" THEN Step("reload", "red:E")
                        ELSE Step("reload", "none")
      [] pc = "reload" -> Step("done", "none")

cancel_reviewreply_backend(pc, outcome) ==
    CASE pc = "start" -> Step("call", "none")
      [] pc = "call" -> IF outcome = "throw" THEN Step("done", "red:E")
                        ELSE IF outcome = "msg" THEN Step("reload", "red:E")
                        ELSE Step("reload", "none")
      [] pc = "reload" -> Step("done", "none")

cancel_md2docx_backend(pc, outcome) ==
    CASE pc = "start" -> Step("call", "none")
      [] pc = "call" -> IF outcome = "throw" THEN Step("done", "red:E")
                        ELSE IF outcome = "msg" THEN Step("reload", "red:E")
                        ELSE Step("reload", "none")
      [] pc = "reload" -> Step("done", "none")

cancel_patentability_backend(pc, outcome) ==
    CASE pc = "start" -> Step("call", "none")
      [] pc = "call" -> IF outcome = "throw" THEN Step("done", "red:E")
                        ELSE IF outcome = "msg" THEN Step("reload", "red:E")
                        ELSE Step("reload", "none")
      [] pc = "reload" -> Step("done", "none")

\* the cancel handler of each gate doctype
CancelHandler(k, pc, outcome) ==
    CASE k = "Patent Workflow" -> cancel_step_backend(pc, outcome)
      [] k = "Review Reply" -> cancel_reviewreply_backend(pc, outcome)
      [] k = "Md2docx" -> cancel_md2docx_backend(pc, outcome)
      [] k = "Patentability" -> cancel_patentability_backend(pc, outcome)

\* a form opened on a stored document whose task is idle, running or done
InitCancel ==
    /\ GateUnused
    /\ XUnused
    /\ kind \in GateKinds
    /\ task \in FormTasks(kind)
    /\ is_new = FALSE
    /\ dirty = FALSE
    /\ \E c \in InputChoices(kind, task), r \in {0, 1}, dn \in {0, 1} :
          /\ r = 1 => dn = 0
          /\ server = SetTaskState(kind, task, WithInputs(BlankDoc(kind), c), r, dn, dn)
    /\ doc = server
    /\ buttons = Refresh(kind, doc)
    /\ inv = [i \in Slots |-> IdleInv]
    /\ reloads = {}

\* cancel_<task>: the handler runs up to the cancel_task call
ClickCancel ==
    /\ buttons[task].cancel
    /\ ~Frozen
    /\ \E i \in Slots :
          /\ FreeSlot(i)
          /\ inv' = Resume(i, IdleInv, CancelHandler(kind, "start", "none"))
    /\ UNCHANGED <<xvars, gvars, kind, task, server, doc, dirty, is_new, buttons, reloads>>

\* cancel_task resolves; the backend has stopped the task, or has not
CancelCallResolves ==
    \E i \in Slots, r \in {"ok", "msg"}, stopped \in BOOLEAN :
        /\ inv[i].pc = "call"
        /\ server' = IF stopped /\ TaskRunning(kind, task, server) = 1
                     THEN SetTaskState(kind, task, server, 0, 0, TaskCount(kind, server))
                     ELSE server
        /\ LET st == CancelHandler(kind, "call", r)
           IN  /\ CanIssue(reloads, st)
               /\ inv' = Resume(i, [inv[i] EXCEPT !.result = r], st)
               /\ reloads' = IssueReload(reloads, i, st)
        /\ UNCHANGED <<xvars, gvars, kind, task, doc, dirty, is_new, buttons>>

\* cancel_task rejects
CancelCallThrows ==
    \E i \in Slots :
        /\ inv[i].pc = "call"
        /\ LET st == CancelHandler(kind, "call", "throw")
           IN  /\ CanIssue(reloads, st)
               /\ inv' = Resume(i, [inv[i] EXCEPT !.result = "throw"], st)
               /\ reloads' = IssueReload(reloads, i, st)
        /\ UNCHANGED <<xvars, gvars, kind, task, server, doc, dirty, is_new, buttons>>

\* frm.reload_doc() resolves: the document is replaced, the form refreshed,
\* and the cancel handler that awaited it returns
CancelReloadResolves ==
    \E r \in reloads :
        /\ r.read
        /\ doc' = r.snap
        /\ dirty' = FALSE
        /\ buttons' = Refresh(kind, doc')
        /\ reloads' = reloads \ {r}
        /\ IF r.owner = 0
           THEN inv' = inv
           ELSE inv' = Resume(r.owner, inv[r.owner],
                              CancelHandler(kind, inv[r.owner].pc, "ok"))
        /\ UNCHANGED <<xvars, gvars, kind, task, server, is_new>>

NextCancel ==
    \/ ClickCancel
    \/ CancelCallResolves
    \/ CancelCallThrows
    \/ ReloadReads
    \/ CancelReloadResolves
    \/ TaskCompletes
    \/ TaskFails

SpecCancel == InitCancel /\ [][NextCancel]_vars

\* C11 A cancel invocation that has finished has reloaded the document after
\*     the cancel_task call, whatever the outcome of the call.
C11_CancelAlwaysReloads ==
    \A i \in Slots : inv[i].pc = "done" => inv[i].late_reloads >= 1

\* ------------------------------------------------------------------------
\* SpecListen: the realtime listeners of one form instance
\*
\* The form instance of a doctype is kept while the user moves from one
\* document of the doctype to another; each move fires refresh.
\* ------------------------------------------------------------------------
MaxRefresh == 3
MaxPublished == 1

Docnames == {"DOC-1", "DOC-2"}

ListenKinds == {k \in FormKinds : Listens(k)}

\* the <task> of the channels <task>_done and <task>_failed of each script
ChannelTasks(k) ==
    IF k \in GateKinds THEN Tasks(k)
    ELSE CASE k = "Tech To Claims" -> {"tech_to_claims"}
           [] k = "Claims To Docx" -> {"claims_to_docx"}
           [] k = "Review To Revise" -> {"review_to_revise"}
           [] k = "MD To Docx" -> {"md_to_docx"}
           [] k = "MD To Docx (callback)" -> {"md_to_docx"}

Channels(k) == [task : ChannelTasks(k), outcome : {"done", "failed"}]

\* variant: the listeners are bound on every refresh
should_bind_Always(bound) == TRUE

\* if (!frm._realtime_bound)
should_bind(bound) == ~bound

\* variant: the handler compares with the document open when it was bound
listener_matches_BoundDocument(event_docname, open_docname, bound_name) ==
    event_docname = bound_name

\* if (data.docname === frm.doc.name)
listener_matches(event_docname, open_docname, bound_name) ==
    event_docname = open_docname

\* refresh(frm): frappe.realtime.on appends a handler to each channel
refresh_binds(k, registered, bound) ==
    IF should_bind(bound)
    THEN [ch \in Channels(k) |-> registered[ch] + 1]
    ELSE registered

\* the form instance is created on its first document
InitListen ==
    /\ GateUnused
    /\ FormUnused
    /\ SuccessorUnused
    /\ ChatUnused
    /\ OverlapUnused
    /\ ValidateUnused
    /\ LinksUnused
    /\ RemoteUnused
    /\ lkind \in ListenKinds
    /\ realtime_bound = FALSE
    /\ handlers = [ch \in Channels(lkind) |-> 0]
    /\ docname \in Docnames
    /\ bound_docname = "none"
    /\ published = {}
    /\ refreshes = 0
    /\ last = <<>>

\* the refresh event, on the document d that is shown from now on
ListenRefresh ==
    \E d \in Docnames :
        /\ refreshes < MaxRefresh
        /\ refreshes = 0 => d = docname
        /\ refreshes' = refreshes + 1
        /\ docname' = d
        /\ handlers' = refresh_binds(lkind, handlers, realtime_bound)
        /\ bound_docname' = IF should_bind(realtime_bound) THEN d ELSE bound_docname
        /\ realtime_bound' = TRUE
        /\ UNCHANGED <<gvars, fvars, pvars, cvars, ovars, vvars, uvars, rvars, lkind, published, last>>

\* the backend publishes <task>_done or <task>_failed for a document
Publish ==
    \E ch \in Channels(lkind), d \in Docnames :
        /\ Cardinality(published) < MaxPublished
        /\ published' = published \cup {[channel |-> ch, docname |-> d]}
        /\ UNCHANGED <<gvars, fvars, pvars, cvars, ovars, vvars, uvars, rvars, lkind, realtime_bound, handlers, docname,
                       bound_docname, refreshes, last>>

\* an event is delivered: every handler registered on its channel runs
Deliver ==
    \E e \in published :
        LET hits == IF listener_matches(e.docname, docname, bound_docname)
                    THEN handlers[e.channel] ELSE 0
        IN  /\ published' = published \ {e}
            /\ last' = [event |-> e, open |-> docname, bound |-> realtime_bound,
                        alerts |-> hits, reloads |-> hits]
            /\ UNCHANGED <<gvars, fvars, pvars, cvars, ovars, vvars, uvars, rvars, lkind, realtime_bound, handlers, docname,
                           bound_docname, refreshes>>

NextListen == ListenRefresh \/ Publish \/ Deliver

SpecListen == InitListen /\ [][NextListen]_vars

\* C12 Once the form has been refreshed, however often, each channel
\*     <task>_done and <task>_failed of its script has exactly one handler,
\*     and the event delivered last, if it named the open document and came
\*     after the first refresh, produced exactly one alert and one reload.
C12_BoundExactlyOnce ==
    refreshes >= 1 =>
        /\ \A ch \in Channels(lkind) : handlers[ch] = 1
        /\ (last # <<>> /\ last.event.docname = last.open /\ last.bound)
               => (last.alerts = 1 /\ last.reloads = 1)

C12_Witness ==
    /\ refreshes = MaxRefresh
    /\ last # <<>>
    /\ last.event.docname = last.open
    /\ last.alerts = 1
    /\ last.reloads = 1

\* C13 An event delivered to a form whose listeners are bound produces an
\*     alert and a reload if and only if its docname is the name of the
\*     document open at the delivery; an event for another document
\*     produces neither.
C13_FiltersByOpenDocument ==
    (last # <<>> /\ last.bound) =>
        IF last.event.docname = last.open
        THEN last.alerts >= 1 /\ last.reloads >= 1
        ELSE last.alerts = 0 /\ last.reloads = 0

C13_Witness ==
    /\ last # <<>>
    /\ last.bound
    /\ last.open # bound_docname
    /\ last.event.docname = last.open
    /\ last.alerts >= 1
    /\ last.reloads >= 1

\* ------------------------------------------------------------------------
\* SpecLinks: the signed_url column of the generated_files grid and the
\* download buttons

MaxClock == 62
MaxGenerated == 1
MaxLinkRefresh == 2

\* 1000 * 60 * 60 milliseconds, in minutes
OneHour == 60

LinkScripts ==
    {"md_to_docx.js", "tech_to_claims.js", "review_to_revise.js",
     "claims_to_docx/01.js", "part_010", "upload_final_docx.js"}

\* a field value: <<>> when the field is undefined or null, else <<value>>
SignedUrls == {<<>>, <<"">>, <<"undefined">>, <<"https://s3/f">>, <<"s3/f">>}

\* a timestamp: <<>> when missing, else <<minute>>
Timestamps == {<<>>} \cup {<<t>> : t \in 0..MaxGenerated}

LinkRows == [signed_url : SignedUrls, signed_url_generated_at : Timestamps]

\* variant: a missing timestamp is taken as fresh
is_url_expired_MissingIsFresh(generated_at, now) ==
    IF generated_at = <<>> THEN FALSE
    ELSE now - generated_at[1] >= OneHour

\* is_url_expired(generated_at): diffHours >= 1
is_url_expired(generated_at, now) ==
    IF generated_at = <<>> THEN TRUE
    ELSE now - generated_at[1] >= OneHour

\* (now - generated_time) > (60 * 60 * 1000)
older_than_hour(generated_at, now) == now - generated_at[1] > OneHour

\* variant: only an absent value is refused
invalid_url_AbsentOnly(url) == url = <<>>

\* if (!url || url === '' || url === 'undefined')
invalid_url(url) == url = <<>> \/ url[1] = "" \/ url[1] = "undefined"

\* if (!url.startsWith('http://') && !url.startsWith('https://')) url = 'https://' + url
with_scheme(url) ==
    IF url[1] \in {"https://s3/f"} THEN url[1] ELSE "https://" \o url[1]

\* what one run of a click handler did: the targets opened and the message shown
Outcome(opened, message) == [opened |-> opened, message |-> message]

\* the column handler that checks the value only
click_unchecked(r) ==
    IF invalid_url(r.signed_url) THEN Outcome(<<>>, "invalid url")
    ELSE Outcome(<<with_scheme(r.signed_url)>>, "none")

\* the column handler that also checks the age of the link
click_checked(r, now) ==
    IF invalid_url(r.signed_url) THEN Outcome(<<>>, "invalid url")
    ELSE IF is_url_expired(r.signed_url_generated_at, now)
         THEN Outcome(<<>>, "expired, refresh the links")
         ELSE Outcome(<<with_scheme(r.signed_url)>>, "none")

\* the click handler that setup_clickable_column binds, per script
column_click(s, r, now) ==
    CASE s = "md_to_docx.js" -> click_unchecked(r)
      [] s = "tech_to_claims.js" -> click_unchecked(r)
      [] s = "review_to_revise.js" -> click_unchecked(r)
      [] s = "claims_to_docx/01.js" -> click_unchecked(r)
      [] s = "part_010" -> click_checked(r, now)
      [] s = "upload_final_docx.js" -> click_checked(r, now)

Falsy(v) == v = <<>> \/ v[1] = ""

\* update_button_state(frm, button_text, file, now) of claims_to_docx/01.js:
\* the class the download button gets
update_button_state(found, r, now) ==
    IF ~found \/ Falsy(r.signed_url) \/ r.signed_url_generated_at = <<>>
    THEN "btn-secondary"
    ELSE IF older_than_hour(r.signed_url_generated_at, now) THEN "btn-warning"
         ELSE "btn-success"

\* handle_download(frm, file_type) of claims_to_docx/01.js
handle_download(found, r, now) ==
    IF ~found THEN Outcome(<<>>, "file not found")
    ELSE IF Falsy(r.signed_url) \/ r.signed_url_generated_at = <<>>
         THEN Outcome(<<>>, "refresh the links first")
         ELSE IF older_than_hour(r.signed_url_generated_at, now)
              THEN Outcome(<<>>, "expired, refresh the links")
              ELSE Outcome(<<r.signed_url[1]>>, "download started")

\* handle_download_click(frm, type) of part_010
handle_download_click(found, r, now) ==
    IF ~found THEN Outcome(<<>>, "file not found")
    ELSE IF Falsy(r.signed_url) THEN Outcome(<<>>, "refresh the links first")
         ELSE IF is_url_expired(r.signed_url_generated_at, now)
              THEN Outcome(<<>>, "expired, refresh the links")
              ELSE Outcome(<<r.signed_url[1]>>, "download started")

\* the scripts that add download buttons
DownloadScripts == {"claims_to_docx/01.js", "part_010"}

\* update_download_buttons(frm) of part_010: the class of a download button
update_download_buttons(found, r, now) ==
    IF found /\ ~Falsy(r.signed_url) /\ ~is_url_expired(r.signed_url_generated_at, now)
    THEN "btn-primary"
    ELSE "btn-default"

\* the class that refresh gives a download button, per script
button_class(s, found, r, now) ==
    CASE s = "claims_to_docx/01.js" -> update_button_state(found, r, now)
      [] s = "part_010" -> update_download_buttons(found, r, now)
      [] OTHER -> "none"

download_click(s, found, r, now) ==
    CASE s = "claims_to_docx/01.js" -> handle_download(found, r, now)
      [] s = "part_010" -> handle_download_click(found, r, now)

\* variant: setup_clickable_column without the two removals
setup_clickable_column_KeepsOld(n) == n + 1

\* setup_clickable_column(frm): .remove() / .off('click.custom-clickable'),
\* then one append / one .on('click.custom-clickable', ...)
setup_clickable_column(n) == LET cleared == 0 IN cleared + 1

InitLinks ==
    /\ GateUnused
    /\ FormUnused
    /\ SuccessorUnused
    /\ ChatUnused
    /\ OverlapUnused
    /\ ValidateUnused
    /\ ListenUnused
    /\ RemoteUnused
    /\ ukind \in LinkScripts
    /\ clock = 0
    /\ link_row \in LinkRows
    /\ click_handlers = 0
    /\ style_elements = 0
    /\ download_button = "none"
    /\ urefreshes = 0
    /\ act = <<>>

\* the refresh event; found tells whether the row is the file of the button
LinkRefresh ==
    \E found \in BOOLEAN :
        /\ urefreshes < MaxLinkRefresh
        /\ urefreshes' = urefreshes + 1
        /\ click_handlers' = setup_clickable_column(click_handlers)
        /\ style_elements' = setup_clickable_column(style_elements)
        /\ download_button' = button_class(ukind, found, link_row, clock)
        /\ UNCHANGED <<gvars, fvars, pvars, cvars, ovars, vvars, lvars, rvars, ukind, clock, link_row, act>>

\* a minute passes
Tick ==
    /\ clock < MaxClock
    /\ clock' = clock + 1
    /\ UNCHANGED <<gvars, fvars, pvars, cvars, ovars, vvars, lvars, rvars, ukind, link_row, click_handlers,
                   style_elements, download_button, urefreshes, act>>

\* the link of row r was generated more than one hour before now
Stale(r, now) ==
    /\ r.signed_url_generated_at # <<>>
    /\ now - r.signed_url_generated_at[1] > OneHour

\* the user clicks the signed_url cell of the row: every bound handler runs
ClickCell ==
    /\ act' = [on |-> "cell", found |-> TRUE, row |-> link_row, stale |-> Stale(link_row, clock),
               ran |-> click_handlers,
               did |-> column_click(ukind, link_row, clock)]
    /\ UNCHANGED <<gvars, fvars, pvars, cvars, ovars, vvars, lvars, rvars, ukind, clock, link_row, click_handlers,
                   style_elements, download_button, urefreshes>>

\* the user clicks a download button; found tells whether find_file_by_type
\* returns the row
ClickDownload ==
    \E found \in BOOLEAN :
        /\ ukind \in DownloadScripts
        /\ urefreshes >= 1
        /\ act' = [on |-> "download", found |-> found, row |-> link_row,
                   stale |-> Stale(link_row, clock), ran |-> 1,
                   did |-> download_click(ukind, found, link_row, clock)]
        /\ UNCHANGED <<gvars, fvars, pvars, cvars, ovars, vvars, lvars, rvars, ukind, clock, link_row, click_handlers,
                       style_elements, download_button, urefreshes>>

NextLinks == LinkRefresh \/ Tick \/ ClickCell \/ ClickDownload

SpecLinks == InitLinks /\ [][NextLinks]_vars

\* C14: a signed URL whose signed_url_generated_at is more than one hour in
\* the past is never opened or downloaded, neither by the link column nor by
\* a download button; the user is told to refresh the links instead
C14_StaleLinkNeverOpened ==
    (act # <<>> /\ act.ran >= 1 /\ act.found /\ ~invalid_url(act.row.signed_url)
        /\ act.stale)
        => (act.did.opened = <<>> /\ act.did.message = "expired, refresh the links")

\* the age in minutes of the link of the row, when it has a timestamp
Age(r, now) == now - r.signed_url_generated_at[1]

C16_InvalidUrlNeverOpened ==
    (act # <<>> /\ act.on = "cell" /\ act.ran >= 1
        /\ act.row.signed_url \in {<<>>, <<"">>, <<"undefined">>})
        => act.did = Outcome(<<>>, "invalid url")

\* the cell holding the text "undefined" was clicked and refused
C16_Witness ==
    /\ act # <<>>
    /\ act.on = "cell"
    /\ act.ran = 1
    /\ act.row.signed_url = <<"undefined">>
    /\ act.did = Outcome(<<>>, "invalid url")

\* C17: after any number of refresh events the grid carries exactly one click
\* handler and exactly one style element from setup_clickable_column
C17_OneHandlerOneStyle ==
    urefreshes >= 1 => (click_handlers = 1 /\ style_elements = 1)

\* the form was refreshed MaxLinkRefresh times and a click ran one handler
C17_Witness ==
    /\ urefreshes = MaxLinkRefresh
    /\ click_handlers = 1
    /\ style_elements = 1
    /\ act # <<>>
    /\ act.on = "cell"
    /\ act.ran = 1

\* ------------------------------------------------------------------------
\* SpecRemote: the refresh-links buttons and the API Endpoint handlers.  One
\* handler runs at a time; outcome is what the awaited request did.
\* ------------------------------------------------------------------------
MaxClicks == 2

RefreshLinkScripts ==
    {"md_to_docx.js", "tech_to_claims.js", "review_to_revise.js",
     "claims_to_docx/01.js", "part_010", "upload_final_docx.js"}

EndpointScripts == {"part_006", "upload_final_docx.js (API Endpoint)"}

RemoteScripts == RefreshLinkScripts \cup EndpointScripts

\* the handlers of a script that perform a remote call
RemoteHandlers(s) ==
    IF s \in RefreshLinkScripts THEN {"refresh_links"}
    ELSE IF s = "part_006" THEN {"start_ali_spot", "check_status"}
    ELSE {"start_ali_spot"}

\* the refresh-links button: save when dirty, (upload_final_docx.js: stop
\* without s3 files), generate_signed_urls, reload_doc, blue alert; there is
\* no try/catch, a rejected await ends the handler
refresh_links_checked(s, has_s3_files) ==
    IF s = "upload_final_docx.js" /\ ~has_s3_files THEN Step("done", "orange")
    ELSE Step("call", "none")

refresh_links(s, pc, outcome, is_dirty, has_s3_files) ==
    CASE pc = "start" -> IF is_dirty THEN Step("save", "none")
                         ELSE refresh_links_checked(s, has_s3_files)
      [] pc = "save" -> IF outcome = "throw" THEN Step("done", "none")
                        ELSE refresh_links_checked(s, has_s3_files)
      [] pc = "call" -> IF outcome = "throw" THEN Step("done", "none")
                        ELSE Step("reload", "none")
      [] pc = "reload" -> IF outcome = "throw" THEN Step("done", "none")
                          ELSE Step("done", "blue")

\* start_ali_spot(frm): ping when server_ip_port is set, start the instance
\* when it is unset or the ping is not true.  The callbacks run on a response;
\* outcome "exc" is a response with res.exc, "throw" a request without response
start_ali_spot(pc, outcome, configured) ==
    CASE pc = "start" -> IF ~configured THEN Step("run", "orange") ELSE Step("ping", "none")
      [] pc = "ping" -> IF outcome = "throw" THEN Step("done", "none")
                        ELSE IF outcome = "true" THEN Step("done", "green")
                        ELSE Step("run", "orange")
      [] pc = "run" -> IF outcome = "throw" THEN Step("done", "none")
                       ELSE IF outcome = "exc" THEN Step("done", "red")
                       ELSE Step("done", "green")

\* check_status(frm) of part_006
check_status(pc, outcome, configured) ==
    CASE pc = "start" -> IF ~configured THEN Step("done", "red") ELSE Step("ping", "none")
      [] pc = "ping" -> IF outcome = "throw" THEN Step("done", "none")
                        ELSE IF outcome = "true" THEN Step("done", "green")
                        ELSE Step("done", "red")

RemoteHandler(s, h, pc, outcome, d) ==
    CASE h = "refresh_links" -> refresh_links(s, pc, outcome, d.dirty, d.has_s3_files)
      [] h = "start_ali_spot" -> start_ali_spot(pc, outcome, d.configured)
      [] h = "check_status" -> check_status(pc, outcome, d.configured)

\* frm.set_value("spot_status", ...) in the callbacks of part_006
spot_status_after(s, h, pc, outcome, status) ==
    IF s # "part_006" \/ outcome = "throw" THEN status
    ELSE CASE pc = "ping" /\ outcome = "true" -> "On"
           [] pc = "ping" /\ h = "check_status" -> "Off"
           [] pc = "run" /\ outcome = "exc" -> "Off"
           [] pc = "run" -> "On"
           [] OTHER -> status

\* the callbacks of part_006 that end with frm.save()
saves_after(s, h, pc, outcome) ==
    /\ s = "part_006"
    /\ outcome # "throw"
    /\ \/ pc = "run"
       \/ pc = "ping" /\ (outcome = "true" \/ h = "check_status")

\* the outcomes of an awaited request that are a failure
FailureOutcomes == {"throw", "exc"}

\* the outcomes a request at pc can have
Outcomes(pc) ==
    CASE pc = "ping" -> {"true", "false", "exc", "throw"}
      [] pc = "run" -> {"ok", "exc", "throw"}
      [] OTHER -> {"ok", "throw"}

\* freeze: true of the generate_signed_urls call, and the overlay of frm.save()
RemoteFrozen == rhandler = "refresh_links" /\ rpc \in {"save", "call"}

RemoteDocs(s) ==
    IF s \in RefreshLinkScripts
    THEN [dirty : BOOLEAN, has_s3_files : BOOLEAN, configured : {FALSE},
          spot_status : {"Off"}, saving : {FALSE}]
    ELSE [dirty : {FALSE}, has_s3_files : {FALSE}, configured : BOOLEAN,
          spot_status : {"On", "Off"}, saving : {FALSE}]

InitRemote ==
    /\ GateUnused
    /\ FormUnused
    /\ SuccessorUnused
    /\ ChatUnused
    /\ OverlapUnused
    /\ ValidateUnused
    /\ ListenUnused
    /\ LinksUnused
    /\ rscript \in RemoteScripts
    /\ rhandler = "none"
    /\ rpc = "idle"
    /\ rdoc \in RemoteDocs(rscript)
    /\ rlog = [alert |-> "none", failed |-> FALSE, failure_alert |-> "none", clicks |-> 0,
               call |-> "none"]

\* one step of the handler h from position pc, the awaited request having
\* ended with outcome
RemoteStep(h, pc, outcome, clicks) ==
    LET st == RemoteHandler(rscript, h, pc, outcome, rdoc)
        failed == outcome \in FailureOutcomes
    IN  /\ rhandler' = h
        /\ rpc' = st.next
        /\ rlog' = [alert |-> IF st.alert # "none" THEN st.alert
                              ELSE IF pc = "start" THEN "none" ELSE rlog.alert,
                    failed |-> failed,
                    failure_alert |-> IF failed THEN st.alert ELSE "none",
                    clicks |-> clicks,
                    call |-> IF pc = "start" THEN "none" ELSE pc]
        /\ rdoc' = [rdoc EXCEPT
                      !.spot_status = spot_status_after(rscript, h, pc, outcome, @),
                      !.dirty = IF pc = "save" /\ outcome = "ok" THEN FALSE
                                ELSE IF pc = "reload" /\ outcome = "ok" THEN FALSE
                                ELSE IF spot_status_after(rscript, h, pc, outcome,
                                                          rdoc.spot_status) # rdoc.spot_status
                                     THEN TRUE
                                     ELSE @,
                      !.saving = @ \/ saves_after(rscript, h, pc, outcome)]

\* the user clicks the button of a handler
RemoteClick ==
    \E h \in RemoteHandlers(rscript) :
        /\ rpc \in {"idle", "done"}
        /\ rlog.clicks < MaxClicks
        /\ RemoteStep(h, "start", "ok", rlog.clicks + 1)
        /\ UNCHANGED <<gvars, fvars, pvars, cvars, ovars, vvars, lvars, uvars, rscript>>

\* the awaited request gets a response that is not an error
RemoteSucceeds ==
    \E outcome \in Outcomes(rpc) \ FailureOutcomes :
        /\ rpc \notin {"idle", "done"}
        /\ RemoteStep(rhandler, rpc, outcome, rlog.clicks)
        /\ UNCHANGED <<gvars, fvars, pvars, cvars, ovars, vvars, lvars, uvars, rscript>>

\* the awaited request fails
RemoteFails ==
    \E outcome \in Outcomes(rpc) \cap FailureOutcomes :
        /\ rpc \notin {"idle", "done"}
        /\ RemoteStep(rhandler, rpc, outcome, rlog.clicks)
        /\ UNCHANGED <<gvars, fvars, pvars, cvars, ovars, vvars, lvars, uvars, rscript>>

\* the frm.save() a callback of part_006 started settles
RemoteSaveSettles ==
    \E saved \in BOOLEAN :
        /\ rdoc.saving
        /\ rdoc' = [rdoc EXCEPT !.saving = FALSE, !.dirty = IF saved THEN FALSE ELSE @]
        /\ UNCHANGED <<gvars, fvars, pvars, cvars, ovars, vvars, lvars, uvars, rscript, rhandler, rpc, rlog>>

\* the user edits a field of a form with a refresh-links button
RemoteEdit ==
    /\ rscript \in RefreshLinkScripts
    /\ rpc \in {"idle", "done"}
    /\ ~rdoc.dirty
    /\ rdoc' = [rdoc EXCEPT !.dirty = TRUE]
    /\ UNCHANGED <<gvars, fvars, pvars, cvars, ovars, vvars, lvars, uvars, rscript, rhandler, rpc, rlog>>

NextRemote == RemoteClick \/ RemoteSucceeds \/ RemoteFails \/ RemoteSaveSettles \/ RemoteEdit

SpecRemote == InitRemote /\ [][NextRemote]_vars

\* C18: every failure path of a handler that performs a remote call ends with
\* a notification shown to the user and with the form interactive again;
\* this holds for the refresh-links handlers and the API Endpoint handlers too
C18_FailureEndsNotified ==
    (rpc = "done" /\ rlog.failed) => (rlog.failure_alert # "none" /\ ~RemoteFrozen)

\* what the handlers of the custom Run and upload buttons check on frm.doc:
\* the task is done, is running, or its prerequisite is missing
Blocked(k, d) ==
    \/ d.is_done = 1
    \/ k # "Upload Final Docx" /\ d.is_running = 1
    \/ k = "Tech To Claims" /\ d.tech = <<>>
    \/ k = "Claims To Docx" /\ d.claims = <<>>
    \/ k = "Review To Revise"
          /\ (d.review_pdf = <<>> \/ d.review_pdf[2] \notin {".pdf", ".PDF"})
    \/ k = "Upload Final Docx" /\ (d.final_markdown = <<>> \/ d.final_docx = <<>>)

\* the positions from which a handler goes on to its local checks
BeforeChecks == {"idle", "done", "reload_new", "reload_dirty", "reload_pre"}

\* the alerts of the local checks
CheckAlerts == {"orange", "yellow", "red:fixed"}

TaskFieldNames ==
    {"is_running", "is_done",
     "is_running_reviewreply", "is_done_reviewreply", "success_count_reviewreply",
     "is_running_md2docx", "is_done_md2docx", "success_count_md2docx",
     "is_running_patentability", "is_done_patentability", "success_count_patentability"}

TaskFields(d) == [f \in DOMAIN d \cap TaskFieldNames |-> d[f]]

\* the framework replaces frm.doc by what the backend returned: a reload
\* resolves, or frm.save() resolves
LoadsDocument ==
    \/ \E r \in reloads : r.read /\ r \notin reloads' /\ doc' = r.snap
    \/ \E i \in Slots : inv[i].pc \in SavePcs /\ inv'[i].save = "ok" /\ doc' = server'

C21_ButtonsFollowDocument ==
    grefreshed => gbtn = ApplyGate(gkind, gdoc)

\* ------------------------------------------------------------------------
\* SpecValidate : the validate handler of Review To Revise, applied to the
\* review_pdf field and the attachments of the form
\* ------------------------------------------------------------------------

\* const maxSizeMB = 10
maxSizeMB == 10

\* maxSizeMB * 1024 * 1024, in bytes
MaxFileSize == maxSizeMB * 1024 * 1024

\* file_size of an attachment, in bytes; 0 when the size is not recorded
FileSizes == {0, MaxFileSize - 1, MaxFileSize, MaxFileSize + 1}

\* frm.get_docinfo().attachments: rows with distinct file_url
Attachments ==
    LET AttachmentRows == [file_url : ReviewPdfs \ {<<>>}, file_size : FileSizes]
    IN {a \in UNION {[1..n -> AttachmentRows] : n \in 0..MaxRows} :
            \A i, j \in 1..Len(a) : a[i].file_url = a[j].file_url => i = j}

\* attachments.find(file => file.file_url === fileUrl): the first match, or
\* <<>> for undefined
find_attachment(attachments, fileUrl) ==
    LET hits == {i \in 1..Len(attachments) : attachments[i].file_url = fileUrl}
    IN IF hits = {} THEN <<>>
       ELSE attachments[CHOOSE i \in hits : \A j \in hits : i <= j]

\* validate with the size test >= in place of >
validate_AtLeast(d, attachments) ==
    LET fileUrl == d.review_pdf
        matched == find_attachment(attachments, fileUrl)
    IN IF fileUrl = <<>> THEN "accepted"
       ELSE IF ~EndsWithPdf(fileUrl) THEN "throw: not a pdf"
       ELSE IF matched # <<>> /\ matched.file_size # 0
                /\ matched.file_size >= MaxFileSize
            THEN "throw: too large"
       ELSE "accepted"

\* validate(frm): what the save is answered with
validate(d, attachments) ==
    LET fileUrl == d.review_pdf
        matched == find_attachment(attachments, fileUrl)
    IN IF fileUrl = <<>> THEN "accepted"
       ELSE IF ~EndsWithPdf(fileUrl) THEN "throw: not a pdf"
       ELSE IF matched # <<>> /\ matched.file_size # 0
                /\ matched.file_size > MaxFileSize
            THEN "throw: too large"
       ELSE "accepted"

InitValidate ==
    /\ vdoc \in [review_pdf : ReviewPdfs]
    /\ vattachments \in Attachments
    /\ vresult = "none"
    /\ GateUnused
    /\ FormUnused
    /\ SuccessorUnused
    /\ ChatUnused
    /\ OverlapUnused
    /\ ListenUnused
    /\ LinksUnused
    /\ RemoteUnused

\* the user attaches another file to review_pdf, or clears the field
ValidateSetFile ==
    \E f \in ReviewPdfs :
        /\ f # vdoc.review_pdf
        /\ vdoc' = [vdoc EXCEPT !.review_pdf = f]
        /\ vresult' = "none"
        /\ UNCHANGED <<gvars, fvars, pvars, cvars, ovars, lvars, uvars, rvars, vattachments>>

\* the user saves the form: validate runs on frm.doc
ValidateSave ==
    /\ vresult' = validate(vdoc, vattachments)
    /\ UNCHANGED <<gvars, fvars, pvars, cvars, ovars, lvars, uvars, rvars, vdoc, vattachments>>

NextValidate == ValidateSetFile \/ ValidateSave

SpecValidate == InitValidate /\ [][NextValidate]_vars

\* the attachments whose file_url is the value of review_pdf
MatchingSizes ==
    {vattachments[i].file_size : i \in {j \in 1..Len(vattachments) :
                                         vattachments[j].file_url = vdoc.review_pdf}}

\* C22: the validate handler of Review To Revise rejects the save exactly
\* when review_pdf is set and either its name does not end in .pdf, compared
\* without regard to case, or its matching attachment is larger than
\* 10 * 1024 * 1024 bytes; an empty review_pdf and a file of exactly 10 MiB
\* are accepted
C22_ValidateRejects ==
    vresult # "none" =>
        /\ vresult # "accepted" <=>
              /\ vdoc.review_pdf # <<>>
              /\ \/ vdoc.review_pdf[2] \notin {".pdf", ".PDF"}
                 \/ \E size \in MatchingSizes : size > 10 * 1024 * 1024
        /\ vdoc.review_pdf = <<>> => vresult = "accepted"
        /\ (/\ vdoc.review_pdf # <<>>
            /\ vdoc.review_pdf[2] \in {".pdf", ".PDF"}
            /\ MatchingSizes = {10 * 1024 * 1024}) => vresult = "accepted"

\* a save of an upper-case .PDF of exactly 10 MiB has been accepted
C22_Witness_ExactLimitAccepted ==
    /\ vresult = "accepted"
    /\ vdoc.review_pdf = <<"r", ".PDF">>
    /\ MatchingSizes = {MaxFileSize}

\* ------------------------------------------------------------------------
\* SpecOverlap : one step of Patent Workflow with the reload awaited by
\* run_step_backend and the reloads issued by the <step>_done and
\* <step>_failed listeners, each reload with the order of its issue and
\* of its completion
\* ------------------------------------------------------------------------
MaxIssued == 3

StepFlags == {f \in [is_running : {0, 1}, is_done : {0, 1}] :
                 ~(f.is_running = 1 /\ f.is_done = 1)}

\* frm.reload_doc() is issued: the request carries the order of its issue and
\* the number of reloads completed before it
IssuedReload(from) ==
    [id |-> Cardinality(oreloads) + Len(ocompleted) + 1, from |-> from,
     after |-> Len(ocompleted), read |-> FALSE, snap |-> <<>>]

CanIssueReload == Cardinality(oreloads) + Len(ocompleted) < MaxIssued

InitOverlap ==
    /\ opc = "idle"
    /\ oserver \in StepFlags
    /\ odoc = oserver
    /\ oreloads = {}
    /\ ocompleted = <<>>
    /\ GateUnused
    /\ FormUnused
    /\ SuccessorUnused
    /\ ChatUnused
    /\ ListenUnused
    /\ LinksUnused
    /\ RemoteUnused
    /\ ValidateUnused

\* call_<step> or rerun_<step> is clicked: both are disabled while frm.doc
\* shows the step running; the form is saved, so run_step_backend goes
\* straight to frappe.call
OverlapClick ==
    /\ opc \in {"idle", "done"}
    /\ odoc.is_running = 0
    /\ opc' = run_step_backend("start", "none", FALSE).next
    /\ UNCHANGED <<gvars, fvars, pvars, cvars, lvars, uvars, rvars, vvars, oserver, odoc, oreloads, ocompleted>>

\* frappe.call returns: with success the backend has started the step;
\* run_step_backend awaits frm.reload_doc() unless the call threw
OverlapCallReturns ==
    \E outcome \in {"ok", "fail", "throw"} :
        LET st == run_step_backend("call", outcome, FALSE)
        IN  /\ opc = "call"
            /\ outcome = "ok" => oserver.is_running = 0
            /\ st.next = "reload" => CanIssueReload
            /\ oserver' = IF outcome = "ok" THEN [is_running |-> 1, is_done |-> 0]
                          ELSE oserver
            /\ oreloads' = IF st.next = "reload"
                           THEN oreloads \cup {IssuedReload("invoker")}
                           ELSE oreloads
            /\ opc' = st.next
            /\ UNCHANGED <<gvars, fvars, pvars, cvars, lvars, uvars, rvars, vvars, odoc, ocompleted>>

\* the backend task ends and publishes <step>_done or <step>_failed; the
\* listener of bind_realtime_step_events calls frm.reload_doc()
OverlapTaskEnds ==
    \E dn \in {0, 1} :
        /\ oserver.is_running = 1
        /\ CanIssueReload
        /\ oserver' = [is_running |-> 0, is_done |-> dn]
        /\ oreloads' = oreloads \cup {IssuedReload("push")}
        /\ UNCHANGED <<gvars, fvars, pvars, cvars, lvars, uvars, rvars, vvars, opc, odoc, ocompleted>>

\* the backend reads the document for a reload request
OverlapReloadReads ==
    \E r \in oreloads :
        /\ ~r.read
        /\ oreloads' = (oreloads \ {r}) \cup {[r EXCEPT !.read = TRUE, !.snap = oserver]}
        /\ UNCHANGED <<gvars, fvars, pvars, cvars, lvars, uvars, rvars, vvars, opc, oserver, odoc, ocompleted>>

\* variant: a response is dropped when a reload issued after it has completed
OverlapReloadResolves_NewestIssued ==
    \E r \in oreloads :
        /\ r.read
        /\ odoc' = IF \E i \in 1..Len(ocompleted) : ocompleted[i].id > r.id
                   THEN odoc ELSE r.snap
        /\ oreloads' = oreloads \ {r}
        /\ ocompleted' = Append(ocompleted, r)
        /\ opc' = IF r.from = "invoker"
                  THEN run_step_backend("reload", "ok", FALSE).next ELSE opc
        /\ UNCHANGED <<gvars, fvars, pvars, cvars, lvars, uvars, rvars, vvars, oserver>>

\* frm.reload_doc() resolves: frm.doc is replaced by what the request read,
\* and run_step_backend, when it awaited this reload, returns
OverlapReloadResolves ==
    \E r \in oreloads :
        /\ r.read
        /\ odoc' = r.snap
        /\ oreloads' = oreloads \ {r}
        /\ ocompleted' = Append(ocompleted, r)
        /\ opc' = IF r.from = "invoker"
                  THEN run_step_backend("reload", "ok", FALSE).next ELSE opc
        /\ UNCHANGED <<gvars, fvars, pvars, cvars, lvars, uvars, rvars, vvars, oserver>>

NextOverlap ==
    \/ OverlapClick
    \/ OverlapCallReturns
    \/ OverlapTaskEnds
    \/ OverlapReloadReads
    \/ OverlapReloadResolves

SpecOverlap == InitOverlap /\ [][NextOverlap]_vars

\* the reloads completed i-th and j-th were in flight at the same time, one
\* issued by a listener and the other by run_step_backend
Overlapped(i, j) ==
    /\ ocompleted[i].from # ocompleted[j].from
    /\ ocompleted[i].after < j
    /\ ocompleted[j].after < i

\* C23: when a reload issued by a push event and a reload issued by an
\* invoker on completion of its call overlap, the state displayed once both
\* have completed is the state of the one that completed last, even when
\* that one was issued first
C23_LastCompletedReloadShown ==
    \A i, j \in 1..Len(ocompleted) :
        (i < j /\ j = Len(ocompleted) /\ Overlapped(i, j)) => odoc = ocompleted[j].snap

\* a listener's reload completed first and showed the step done; the reload
\* of run_step_backend, issued before it, completed last and shows the step
\* running
C23_Witness_IssuedFirstCompletedLast ==
    /\ Len(ocompleted) = 2
    /\ oreloads = {}
    /\ Overlapped(1, 2)
    /\ ocompleted[2].from = "invoker"
    /\ ocompleted[2].id < ocompleted[1].id
    /\ ocompleted[1].snap.is_done = 1
    /\ odoc.is_running = 1

\* no reload and no call is outstanding and the backend task is not running:
\* the stored task state changes no more until a button is clicked
OverlapSettled ==
    /\ oreloads = {}
    /\ opc \in {"idle", "done"}
    /\ oserver.is_running = 0

\* C24: once every outstanding reload has completed and the task state on
\* the server changes no more, is_running and is_done of the form equal the
\* values stored on the server
C24_SettledFormShowsServerState ==
    OverlapSettled => (/\ odoc.is_running = oserver.is_running
                       /\ odoc.is_done = oserver.is_done)

\* the values another step's prerequisite field is changed to
OtherValues(step) ==
    IF is_table(step) THEN {<<>>, <<[file |-> "f"]>>} ELSE {<<>>, <<"a">>}

\* the document with the flags and the prerequisite of one step changed
WithStep(d, step, r, dn, v) ==
    [d EXCEPT !.is_running = [@ EXCEPT ![step] = r],
              !.is_done = [@ EXCEPT ![step] = dn],
              ![field_map[step]] = v]

\* C25: on Patent Workflow each of the six steps is gated by its own flags
\* and its own prerequisite only: call_<step> is enabled exactly when the
\* prerequisite has a value and the step is neither running nor done,
\* rerun_<step> exactly when it has a value and the step is done and not
\* running, cancel_<step> exactly when the step is running; the flags and
\* the prerequisite of one step never change the buttons of another
C25_StepsGatedIndependently ==
    gkind = "Patent Workflow" =>
        \A step \in Steps :
            LET b == update_step_buttons(gdoc)[step]
                running == gdoc.is_running[step] = 1
                done == gdoc.is_done[step] = 1
                filled == has_value_step(gdoc, step)
            IN  /\ b.call <=> (filled /\ ~running /\ ~done)
                /\ b.rerun <=> (filled /\ ~running /\ done)
                /\ b.cancel <=> running
                /\ \A other \in Steps \ {step} :
                      \A r, dn \in {0, 1}, v \in OtherValues(other) :
                          update_step_buttons(WithStep(gdoc, other, r, dn, v))[step] = b

\* the form has been refreshed on a document in which one step is running
\* and another, not running, offers its first run
C25_Witness_RunningBesideRunnable ==
    /\ gkind = "Patent Workflow"
    /\ grefreshed
    /\ gbtn = update_step_buttons(gdoc)
    /\ \E s1, s2 \in Steps :
          /\ s1 # s2
          /\ gdoc.is_running[s1] = 1
          /\ gbtn[s1].cancel
          /\ gbtn[s2].call
          /\ ~gbtn[s2].cancel

\* C26: the expiry predicate is_url_expired and the inline check of
\* update_button_state and handle_download agree on every link that carries
\* a timestamp, whatever its age, an age of exactly 60 minutes included
C26_ExpiryPredicatesAgree ==
    link_row.signed_url_generated_at # <<>> =>
        (is_url_expired(link_row.signed_url_generated_at, clock)
            <=> older_than_hour(link_row.signed_url_generated_at, clock))

\* ------------------------------------------------------------------------
\* SpecChat : the chat box of LLM Chat Session: the send button, the Enter
\* key, the replies of anthropic_call and the Clear Chat button
\* ------------------------------------------------------------------------
MaxSends == 3

\* what the user may have typed into the input box
ChatInputs == {<<>>, <<" ">>, <<"a">>}

ChatMessage(role, prompt) == [role |-> role, prompt |-> prompt]

InitChat ==
    /\ chat_messages = <<>>
    /\ chat_input = <<>>
    /\ send_disabled = FALSE
    /\ anthropic_calls = {}
    /\ sends = 0
    /\ GateUnused
    /\ FormUnused
    /\ SuccessorUnused
    /\ ListenUnused
    /\ LinksUnused
    /\ RemoteUnused
    /\ ValidateUnused
    /\ OverlapUnused

\* the user types into the input box
ChatType ==
    \E text \in ChatInputs :
        /\ text # chat_input
        /\ chat_input' = text
        /\ UNCHANGED <<gvars, fvars, pvars, lvars, uvars, rvars, vvars, ovars, chat_messages, send_disabled,
                       anthropic_calls, sends>>

\* send_message() up to its await: an empty message only shows an alert;
\* otherwise the send button is disabled, the user message is appended, the
\* input is emptied and anthropic_call is issued
send_message ==
    IF ~HasText(chat_input)
    THEN UNCHANGED <<chat_messages, chat_input, send_disabled, anthropic_calls, sends>>
    ELSE /\ sends < MaxSends
         /\ send_disabled' = TRUE
         /\ chat_messages' = Append(chat_messages, ChatMessage("user", sends + 1))
         /\ chat_input' = <<>>
         /\ anthropic_calls' = anthropic_calls \cup {sends + 1}
         /\ sends' = sends + 1

\* sendBtn.on('click', send_message): a disabled button fires no click
ChatClickSend ==
    /\ ~send_disabled
    /\ HasText(chat_input)
    /\ send_message
    /\ UNCHANGED <<gvars, fvars, pvars, lvars, uvars, rvars, vvars, ovars>>

\* input.on('keydown'): Enter without Shift calls send_message
ChatPressEnter ==
    /\ HasText(chat_input)
    /\ send_message
    /\ UNCHANGED <<gvars, fvars, pvars, lvars, uvars, rvars, vvars, ovars>>

\* anthropic_call returns to the send_message that awaits it: a non-empty
\* text is appended as the assistant message; in every case the send button
\* is enabled again
ChatReply ==
    \E prompt \in anthropic_calls, response \in {"text", "empty", "error"} :
        /\ chat_messages' = IF response = "text"
                            THEN Append(chat_messages, ChatMessage("assistant", prompt))
                            ELSE chat_messages
        /\ send_disabled' = FALSE
        /\ anthropic_calls' = anthropic_calls \ {prompt}
        /\ UNCHANGED <<gvars, fvars, pvars, lvars, uvars, rvars, vvars, ovars, chat_input, sends>>

\* Clear Chat, confirmed: frm.doc.chat_messages = []
ChatClear ==
    /\ chat_messages # <<>>
    /\ chat_messages' = <<>>
    /\ UNCHANGED <<gvars, fvars, pvars, lvars, uvars, rvars, vvars, ovars, chat_input, send_disabled,
                   anthropic_calls, sends>>

NextChat == ChatType \/ ChatClickSend \/ ChatPressEnter \/ ChatReply \/ ChatClear

SpecChat == InitChat /\ [][NextChat]_vars

\* C27: at most one anthropic_call is in flight: while send_message awaits
\* a reply, neither a click on the send button nor the Enter key starts a
\* second send_message
C27_OneCallInFlight ==
    Cardinality(anthropic_calls) <= 1

\* C28: every assistant message of chat_messages is preceded by the user
\* message that prompted it, however send_message, the replies and Clear
\* Chat interleave
C28_AssistantFollowsItsPrompt ==
    \A i \in 1..Len(chat_messages) :
        chat_messages[i].role = "assistant" =>
            \E j \in 1..(i - 1) :
                chat_messages[j] = ChatMessage("user", chat_messages[i].prompt)

\* ------------------------------------------------------------------------
\* SpecSuccessor : the '+' buttons that create the next document of the
\* chain, one registration of a handler at a time
\* ------------------------------------------------------------------------
MaxCreated == 6

\* the registrations of a '+' button, by script and line
PlusHandlers ==
    {"tech_to_claims.js:18", "claims_to_docx/01.js:10", "part_010:10", "part_009:178",
     "docx_proofreading.js:18", "docx_proofreading.js:54", "upload_final_docx.js:10",
     "part_005:18"}

\* the doctype frappe.new_doc is called with
Successor(h) ==
    CASE h = "tech_to_claims.js:18" -> "Claims To Docx"
      [] h \in {"claims_to_docx/01.js:10", "part_010:10", "part_009:178"} -> "Docx Proofreading"
      [] h \in {"docx_proofreading.js:18", "docx_proofreading.js:54"} -> "Upload Final Docx"
      [] h \in {"upload_final_docx.js:10", "part_005:18"} -> "Review To Revise"

\* the handler starts with if (!frm.doc.is_done) { show_alert; return; }
ChecksDone(h) == h \notin {"part_009:178", "docx_proofreading.js:54"}

\* the handler of the button up to its first asynchronous step: "alert" when
\* it only shows the message, "fetch" when it awaits get_file_content,
\* "new_doc" when it calls frappe.new_doc
plus_button(h, d) ==
    IF ChecksDone(h) /\ d.is_done = 0 THEN "alert"
    ELSE IF h = "part_010:10" THEN "fetch"
    ELSE "new_doc"

PlusLast(did, d) == [did |-> did, is_done |-> d.is_done]

InitSuccessor ==
    /\ plus_handler \in PlusHandlers
    /\ plus_doc \in [is_done : {0, 1}]
    /\ plus_pc = "idle"
    /\ plus_created = 0
    /\ plus_last = PlusLast("none", plus_doc)
    /\ GateUnused
    /\ FormUnused
    /\ ListenUnused
    /\ LinksUnused
    /\ RemoteUnused
    /\ ValidateUnused
    /\ OverlapUnused
    /\ ChatUnused

\* the user clicks the '+' button
PlusClick ==
    LET did == plus_button(plus_handler, plus_doc)
    IN  /\ plus_pc = "idle"
        /\ did = "new_doc" => plus_created < MaxCreated
        /\ plus_pc' = IF did = "fetch" THEN "fetch" ELSE "idle"
        /\ plus_created' = IF did = "new_doc" THEN plus_created + 1 ELSE plus_created
        /\ plus_last' = PlusLast(did, plus_doc)
        /\ UNCHANGED <<gvars, fvars, lvars, uvars, rvars, vvars, ovars, cvars, plus_handler, plus_doc>>

\* get_file_content settles: then and catch both call frappe.new_doc
PlusFetchSettles ==
    /\ plus_pc = "fetch"
    /\ plus_created < MaxCreated
    /\ plus_pc' = "idle"
    /\ plus_created' = plus_created + 1
    /\ plus_last' = PlusLast("new_doc", plus_doc)
    /\ UNCHANGED <<gvars, fvars, lvars, uvars, rvars, vvars, ovars, cvars, plus_handler, plus_doc>>

\* the task of the document completes and the form shows is_done = 1
PlusTaskCompletes ==
    /\ plus_doc.is_done = 0
    /\ plus_doc' = [plus_doc EXCEPT !.is_done = 1]
    /\ UNCHANGED <<gvars, fvars, lvars, uvars, rvars, vvars, ovars, cvars, plus_handler, plus_pc,
                   plus_created, plus_last>>

NextSuccessor == PlusClick \/ PlusFetchSettles \/ PlusTaskCompletes

SpecSuccessor == InitSuccessor /\ [][NextSuccessor]_vars

\* C29: a successor document (Claims To Docx, Docx Proofreading, Upload
\* Final Docx, Review To Revise) is created only when is_done of the current
\* document is set; otherwise the '+' button only shows a message; this
\* holds for every handler registered for the doctype
C29_SuccessorOnlyWhenDone ==
    /\ plus_last.did = "new_doc" => plus_last.is_done = 1
    /\ (plus_last.did # "none" /\ plus_last.is_done = 0) => plus_last.did = "alert"

\* start_ali_spot goes on to _ali_spot.run only from the click with
\* server_ip_port empty, or from a ping that did not return true
RunOnlyWhenOffline ==
    /\ start_ali_spot("start", "ok", rdoc.configured).next = "run" <=> ~rdoc.configured
    /\ \A outcome \in Outcomes("ping") :
          start_ali_spot("ping", outcome, rdoc.configured).next = "run" => outcome # "true"
    /\ start_ali_spot("ping", "true", rdoc.configured).next = "done"

\* after a start without res.exc the script of upload_final_docx.js calls
\* frm.reload_doc(): the form then shows the spot_status the backend stored
StatusFromBackend ==
    /\ rscript = "upload_final_docx.js (API Endpoint)"
    /\ rlog.call = "run"
    /\ rlog.alert = "green"

\* a handler of API Endpoint has returned after a ping or a start completed
\* with a response (a request that got no response runs no callback and
\* leaves no alert), and the status it leaves is set by the script
EndpointCallCompleted ==
    /\ rscript \in EndpointScripts
    /\ rpc = "done"
    /\ rlog.call \in {"ping", "run"}
    /\ ~(rlog.failed /\ rlog.failure_alert = "none")
    /\ ~StatusFromBackend

\* the call that completed last reported success: the green alert is shown
\* for a ping that returned true and for a start without res.exc only
EndpointReportedSuccess == rlog.alert = "green"

\* C30: on API Endpoint start_ali_spot calls _ali_spot.run only when
\* server_ip_port is empty or the ping did not return true, so an instance
\* whose ping returned true is never restarted; once a ping or a start has
\* completed, spot_status is "On" exactly when that call reported success
C30_SpotStatusFollowsCall ==
    rscript \in EndpointScripts =>
        /\ RunOnlyWhenOffline
        /\ EndpointCallCompleted => (rdoc.spot_status = "On" <=> EndpointReportedSuccess)

====
